---- MODULE Spec2Model ----
(***************************************************************************)
(* Newton-Raphson root finder and the Rachford-Rice functions of           *)
(* Python/newton.py.                                                       *)
(*                                                                         *)
(* Numbers.  The program computes on Python floats.  The model computes    *)
(* on exact decimal-scaled rationals  n/d * 10^e  (a record [n, d, e]),    *)
(* so that the literals of the source (1e-10, 1e-6, 0.1, 4.2, ...) and     *)
(* values on either side of them are represented exactly.  The canonical   *)
(* form is: gcd(n, d) = 1, d > 0, 10 divides neither n nor d, n is         *)
(* coprime to 10 when e < 0 and d is coprime to 10 when e > 0; zero is     *)
(* [0, 1, 0].  Rounding, infinities and NaN of the floats are not          *)
(* modelled.                                                               *)
(***************************************************************************)
EXTENDS Integers, Sequences, FiniteSets, TLC

(* ------------------------------------------------------------------ *)
(* Exact arithmetic                                                    *)
(* ------------------------------------------------------------------ *)

IAbs(i) == IF i < 0 THEN -i ELSE i

ISign(i) == IF i < 0 THEN -1 ELSE IF i = 0 THEN 0 ELSE 1

RECURSIVE Gcd(_, _)
Gcd(a, b) == IF b = 0 THEN a ELSE Gcd(b, a % b)

RECURSIVE Pow10(_)
Pow10(k) == IF k = 0 THEN 1 ELSE 10 * Pow10(k - 1)

Zero == [n |-> 0, d |-> 1, e |-> 0]

\* Moves the powers of ten of n and of d into the exponent.
RECURSIVE Strip10(_, _, _)
Strip10(n, d, e) ==
    IF n % 10 = 0 THEN Strip10(n \div 10, d, e + 1)
    ELSE IF d % 10 = 0 THEN Strip10(n, d \div 10, e - 1)
    ELSE [n |-> n, d |-> d, e |-> e]

\* Cancels the 2s and 5s that n shares with 10^-e (e < 0), or d with 10^e.
RECURSIVE Balance(_, _, _)
Balance(n, d, e) ==
    IF e < 0 /\ n % 5 = 0 THEN Balance(n \div 5, d * 2, e + 1)
    ELSE IF e < 0 /\ n % 2 = 0 THEN Balance(n \div 2, d * 5, e + 1)
    ELSE IF e > 0 /\ d % 5 = 0 THEN Balance(n * 2, d \div 5, e - 1)
    ELSE IF e > 0 /\ d % 2 = 0 THEN Balance(n * 5, d \div 2, e - 1)
    ELSE [n |-> n, d |-> d, e |-> e]

\* The operations below bind their operands with a set constructor, so that
\* an operand is evaluated once, before the operation is applied to its value.

NumOf(n, d, e) ==
    IF n = 0 THEN Zero
    ELSE LET g == Gcd(IAbs(n), IAbs(d))
             s == Strip10((ISign(d) * n) \div g, IAbs(d) \div g, e)
         IN  Balance(s.n, s.d, s.e)

\* The canonical number n/d * 10^e, for d # 0.
Num(n, d, e) == CHOOSE r \in {NumOf(u, v, w) : u \in {n}, v \in {d}, w \in {e}} : TRUE

Int2Num(i) == Num(i, 1, 0)

(* ------------------------------------------------------------------ *)
(* State                                                               *)
(* ------------------------------------------------------------------ *)

VARIABLES
    z, K,                          \* module-level feed data (newton.py:32-33)
    pc,                            \* position of the current call
    func, dfunc, x0, tol, max_iter,\* arguments of the current call
    x, i, f_x, df_x, x_new,        \* locals; <<>> is an unbound name
    outcome,                       \* how the call ended: <<>> while it runs
    nfunc, ndfunc,                 \* evaluations of func and of dfunc in this call
    iterates,                      \* x0 and every value assigned to x in this call
    prev                           \* the call before, when this one repeats its arguments

args == <<func, dfunc, x0, tol, max_iter>>

locals == <<x, i, f_x, df_x, x_new>>

ghost == <<nfunc, ndfunc, iterates, prev>>

VARIABLES
    inv,                           \* the frames of the calls made from threads
    V0, V_solution,                \* module-level names of the driver (newton.py:44, 48)
    dpc,                           \* position of the driver
    stdout                         \* the lines printed

driver == <<V0, V_solution, dpc, stdout>>

VARIABLES
    rr_f, rr_V,                    \* a call of rachford_rice or d_rachford_rice, and its V
    rr_seen,                       \* the values i has taken in the generator
    rr_sum,                        \* the running total inside sum(); <<>> when there is none
    rr_ret                         \* how that call ended: <<>> while it runs

sums == <<rr_f, rr_V, rr_seen, rr_sum, rr_ret>>

VARIABLES
    files,                         \* what open() finds at each path
    adj_model,                     \* a ParameterAdjustmentModel; <<>> before there is one
    characterizer,                 \* a PetroleumCharacterization; <<>> before there is one
    ret                            \* the last call on these objects and how it ended

petro == <<files, adj_model, characterizer, ret>>

\* what a sequence of calls from one thread never touches
others == <<inv, driver, sums, petro>>

vars == <<z, K, pc, func, dfunc, x0, tol, max_iter, x, i, f_x, df_x, x_new,
          outcome, nfunc, ndfunc, iterates, prev, others>>

(* ------------------------------------------------------------------ *)
(* Long integers                                                       *)
(* ------------------------------------------------------------------ *)

\* A natural number is the sequence of its digits in base Radix, the least
\* significant first and the most significant not 0; zero is <<>>. An
\* integer is a record [s, m] of its sign (-1, 0, 1) and its magnitude.

Radix == 10000

\* F applied to the values of its operands, each evaluated once
Strict1(F(_), a) == CHOOSE r \in {F(u) : u \in {a}} : TRUE

Strict2(F(_, _), a, b) == CHOOSE r \in {F(u, v) : u \in {a}, v \in {b}} : TRUE

Strict3(F(_, _, _), a, b, c) ==
    CHOOSE r \in {F(u, v, w) : u \in {a}, v \in {b}, w \in {c}} : TRUE

Strict4(F(_, _, _, _), a, b, c, d) ==
    CHOOSE r \in {F(u, v, w, y) : u \in {a}, v \in {b}, w \in {c}, y \in {d}} : TRUE

\* the digit of Radix^(j - 1) in a
Digit(a, j) == IF j <= Len(a) THEN a[j] ELSE 0

\* a without its leading zeros
\* Every operation of the evaluation is a case of the one recursive operator
\* Compute, defined after Apply; its name stands for that case.
RECURSIVE Compute(_, _)

NTrim(a0) == Compute("NTrim", <<a0>>)

Nat2Big(n) == Compute("Nat2Big", <<n>>)

\* a + b: a carry enters digit j when a lower digit g overflows and every digit
\* between g and j passes a carry on
NAdd(a0, b0) == Compute("NAdd", <<a0, b0>>)

\* a - b for a >= b: digit j lends when a lower digit g is short and no digit
\* between g and j can spare one
NSub(a0, b0) == Compute("NSub", <<a0, b0>>)

\* the sign of a - b: of the difference in length, or in the highest digit that
\* differs
NCmp(a0, b0) == Compute("NCmp", <<a0, b0>>)

\* a * k for one digit k: the low and the high parts of the digits' products
NMulSmall(a0, k) == Compute("NMulSmall", <<a0, k>>)

\* the sum of the products a[g] * b[h] with g + h = j + 1, from g on
RECURSIVE ColSum(_, _, _, _)
ColSum(a, b, j, g) ==
    IF g > Len(a) THEN 0
    ELSE (IF 1 <= j + 1 - g /\ j + 1 - g <= Len(b) THEN a[g] * b[j + 1 - g] ELSE 0)
            + ColSum(a, b, j, g + 1)

\* a * b: the three digits of every column sum
NMul(a0, b0) == Compute("NMul", <<a0, b0>>)

\* the digit q with q * b <= r < (q + 1) * b, for r < b * Radix and the top digit
\* of b at least Radix \div 2: the quotient of the top digits is q, q + 1 or q + 2
QDigit(r0, b0) == Compute("QDigit", <<r0, b0>>)

\* [q, r] with a = q * b + r and 0 <= r < b, for b with a top digit of at least
\* Radix \div 2: long division, which has no digit to find while a is shorter
\* than b
NDivMod(a0, b0) == Compute("NDivMod", <<a0, b0>>)

\* a \div b for b # 0: a and b are scaled to give b such a top digit
NQuot(a0, b0) == Compute("NQuot", <<a0, b0>>)

\* a * Radix^k
NShift(a0, k) == Compute("NShift", <<a0, k>>)

\* a \div Radix^k
NDrop(a0, k) == Compute("NDrop", <<a0, k>>)

ZOf(s, m0) == Compute("ZOf", <<s, m0>>)

Int2Big(n) == Compute("Int2Big", <<n>>)

ZNeg(a0) == Compute("ZNeg", <<a0>>)

ZAdd(a0, b0) == Compute("ZAdd", <<a0, b0>>)

ZSub(a, b) == Compute("ZSub", <<a, b>>)

ZMul(a0, b0) == Compute("ZMul", <<a0, b0>>)

\* a / b rounded toward 0, for b # 0
ZQuot(a0, b0) == Compute("ZQuot", <<a0, b0>>)

ZLess(a0, b0) == Compute("ZLess", <<a0, b0>>)

ZMin(a0, b0) == Compute("ZMin", <<a0, b0>>)

ZMax(a0, b0) == Compute("ZMax", <<a0, b0>>)

(* ------------------------------------------------------------------ *)
(* Enclosures of floating-point values                                 *)
(* ------------------------------------------------------------------ *)

\* A float of a long run is followed by an enclosure [lo, hi]: two long
\* integers counting units of Radix^-Places, with lo <= the float <= hi.
\* Every operation returns an enclosure of the exact results over its
\* operands' enclosures, widened by more than the rounding error of the
\* floating-point operation (at most 2^-53 of the result, less than 2 * 10^-16
\* of it). A comparison is decided when the enclosures do not overlap.

Places == 3

Scale == [s |-> 1, m |-> NShift(<<1>>, Places)]

IsEncl(a) == "lo" \in DOMAIN a

\* more than 2 * 10^-16 of the magnitude m, and two units
Slack(m) == Compute("Slack", <<m>>)

Widen(lo0, hi0) == Compute("Widen", <<lo0, hi0>>)

\* 10^k
Pow10Big(k) == Compute("Pow10Big", <<k>>)

\* the enclosure of the float nearest to the number u = n/d * 10^e; an integer
\* is a float
FromNum(u) == Compute("FromNum", <<u>>)

Encl(a) == Compute("Encl", <<a>>)

ENeg(a0) == Compute("ENeg", <<a0>>)

EAbs(a0) == Compute("EAbs", <<a0>>)

EAdd(a0, b0) == Compute("EAdd", <<a0, b0>>)

\* the enclosure of the four values p1 .. p4, each within one unit of an
\* exact result at a corner of the operands' enclosures
Hull(p1, p2, p3, p4) == Compute("Hull", <<p1, p2, p3, p4>>)

\* v * w / Scale rounded toward 0
EProd(v0, w0) == Compute("EProd", <<v0, w0>>)

EMul(a0, b0) == Compute("EMul", <<a0, b0>>)

EQuot(v, w) == Compute("EQuot", <<v, w>>)

\* a / b for an enclosure b without 0
EDiv(a0, b0) == Compute("EDiv", <<a0, b0>>)

\* the float may be 0
EZero(a0) == Compute("EZero", <<a0>>)

\* every float in a is smaller than every float in b
ELess(a0, b0) == Compute("ELess", <<a0, b0>>)

(* ------------------------------------------------------------------ *)
(* Arithmetic of the calls: on numbers, and on enclosures when an      *)
(* operand is one                                                      *)
(* ------------------------------------------------------------------ *)

IsZero(a) ==
    CHOOSE r \in {Compute("IsZero", <<u1>>) : u1 \in {a}} : TRUE

RNeg(a) ==
    CHOOSE r \in {Compute("RNeg", <<u1>>) : u1 \in {a}} : TRUE

RAbs(a) ==
    CHOOSE r \in {Compute("RAbs", <<u1>>) : u1 \in {a}} : TRUE

AddOf(a, b) ==
    LET m == IF a.e < b.e THEN a.e ELSE b.e
    IN  Num(a.n * Pow10(a.e - m) * b.d + b.n * Pow10(b.e - m) * a.d, a.d * b.d, m)

RAdd(a, b) ==
    CHOOSE r \in {Compute("RAdd", <<u1, u2>>) : u1 \in {a}, u2 \in {b}} : TRUE

RSub(a, b) ==
    CHOOSE r \in {Compute("RSub", <<u1, u2>>) : u1 \in {a}, u2 \in {b}} : TRUE

MulOf(a, b) ==
    LET g1 == Gcd(IAbs(a.n), b.d)
        g2 == Gcd(IAbs(b.n), a.d)
    IN  Num((a.n \div g1) * (b.n \div g2), (a.d \div g2) * (b.d \div g1), a.e + b.e)

RMul(a, b) ==
    CHOOSE r \in {Compute("RMul", <<u1, u2>>) : u1 \in {a}, u2 \in {b}} : TRUE

\* 1 / b for b # 0
Inverse(b) == [n |-> ISign(b.n) * b.d, d |-> IAbs(b.n), e |-> -b.e]

\* a / b for b # 0
RDiv(a, b) ==
    CHOOSE r \in {Compute("RDiv", <<u1, u2>>) : u1 \in {a}, u2 \in {b}} : TRUE

\* l * 10^k < r, for l >= 0, r >= 1, k >= 0, computed without forming l * 10^k
RECURSIVE LtPow(_, _, _)
LtPow(l, r, k) == IF k = 0 THEN l < r ELSE LtPow(l, ((r - 1) \div 10) + 1, k - 1)

\* a < b for a, b > 0
PosLess(a, b) ==
    LET l == a.n * b.d
        r == b.n * a.d
        k == a.e - b.e
    IN  IF k >= 0 THEN LtPow(l, r, k) ELSE ~LtPow(r, l + 1, -k)

LessOf(a, b) ==
    LET sa == ISign(a.n)
        sb == ISign(b.n)
    IN  IF sa # sb THEN sa < sb
        ELSE IF sa = 0 THEN FALSE
        ELSE IF sa > 0 THEN PosLess(a, b)
        ELSE PosLess(RNeg(b), RNeg(a))

RLess(a, b) ==
    CHOOSE r \in {Compute("RLess", <<u1, u2>>) : u1 \in {a}, u2 \in {b}} : TRUE

One == Int2Num(1)

(* ------------------------------------------------------------------ *)
(* Results of evaluating a callable, and outcomes of a call            *)
(* ------------------------------------------------------------------ *)

Ok(v) == [ok |-> TRUE, val |-> <<v>>, exc |-> "", msg |-> ""]

Err(exc, msg) == [ok |-> FALSE, val |-> <<>>, exc |-> exc, msg |-> msg]

ZeroDivision == Err("ZeroDivisionError", "float division by zero")

Returned(v) == [kind |-> "return", value |-> <<v>>, exc |-> "", msg |-> "", fmt |-> <<>>]

Raised(exc, msg, fmt) == [kind |-> "raise", value |-> <<>>, exc |-> exc, msg |-> msg, fmt |-> fmt]

\* The messages are written here without their accents.
\* raise ValueError("La derivada es demasiado pequena, posible division por cero.")
DerivativeTooSmall ==
    Raised("ValueError", "La derivada es demasiado pequena, posible division por cero.", <<>>)

\* ConvergenceFailure raised with the text of the derivative failure
ConvergenceFailure_SameText(m) ==
    Raised("ValueError", "La derivada es demasiado pequena, posible division por cero.", <<>>)

\* raise ValueError("No se alcanzo la convergencia despues de {} iteraciones.".format(max_iter))
ConvergenceFailure(m) ==
    Raised("ValueError", "No se alcanzo la convergencia despues de {} iteraciones.", <<m>>)

DerivFloor == Num(1, 1, -10)

(* ------------------------------------------------------------------ *)
(* The Rachford-Rice functions                                         *)
(* ------------------------------------------------------------------ *)

ZInit == <<Num(1, 1, -1), Num(2, 1, -1), Num(3, 1, -1), Num(4, 1, -1)>>

KInit == <<Num(42, 1, -1), Num(175, 1, -2), Num(74, 1, -2), Num(34, 1, -2)>>

\* 1 + V * (K[i] - 1)
RRDenominator(zz, KK, V, j) ==
    CHOOSE r \in {Compute("RRDenominator", <<u1, u2, u3, u4>>) : u1 \in {zz}, u2 \in {KK}, u3 \in {V}, u4 \in {j}} : TRUE

\* sum(...) over the terms j..Len(zz), added in index order to acc
RRSum(zz, KK, V, j, acc0) ==
    CHOOSE r \in {Compute("RRSum", <<u1, u2, u3, u4, u5>>) : u1 \in {zz}, u2 \in {KK}, u3 \in {V}, u4 \in {j}, u5 \in {acc0}} : TRUE

rachford_rice(zz, KK, V) ==
    CHOOSE r \in {Compute("rachford_rice", <<u1, u2, u3>>) : u1 \in {zz}, u2 \in {KK}, u3 \in {V}} : TRUE

DRRSum(zz, KK, V, j, acc0) ==
    CHOOSE r \in {Compute("DRRSum", <<u1, u2, u3, u4, u5>>) : u1 \in {zz}, u2 \in {KK}, u3 \in {V}, u4 \in {j}, u5 \in {acc0}} : TRUE

d_rachford_rice(zz, KK, V) ==
    CHOOSE r \in {Compute("d_rachford_rice", <<u1, u2, u3>>) : u1 \in {zz}, u2 \in {KK}, u3 \in {V}} : TRUE

\* the element the generator of f yields for i = j - 1:
\*   z[i] * (K[i] - 1) / (1 + V * (K[i] - 1))            (line 37)
\*   -z[i] * (K[i] - 1)**2 / (1 + V * (K[i] - 1))**2     (line 41)
RRElement(f, zz, KK, V, j) ==
    CHOOSE r \in {Compute("RRElement", <<u1, u2, u3, u4, u5>>) : u1 \in {f}, u2 \in {zz}, u3 \in {KK}, u4 \in {V}, u5 \in {j}} : TRUE

(* ------------------------------------------------------------------ *)
(* The callables a caller passes: the two above, and test functions    *)
(* ------------------------------------------------------------------ *)

\* func(v) or dfunc(v) for the callable named f
Apply(f, zz, KK, v) ==
    CHOOSE r \in {Compute("Apply", <<u1, u2, u3, u4>>) : u1 \in {f}, u2 \in {zz}, u3 \in {KK}, u4 \in {v}} : TRUE

Compute(op, p) ==
    CASE op = "NTrim" ->
            Strict1(LAMBDA a :
                LET N == {j \in 1 .. Len(a) : a[j] # 0}
                IN  IF N = {} THEN <<>> ELSE SubSeq(a, 1, CHOOSE j \in N : \A l \in N : l <= j),
                p[1])
      [] op = "Nat2Big" ->
            (LET n == p[1]
             IN
                IF n = 0 THEN <<>> ELSE <<n % Radix>> \o Nat2Big(n \div Radix))
      [] op = "NAdd" ->
            Strict2(LAMBDA a, b :
                LET n == (IF Len(a) < Len(b) THEN Len(b) ELSE Len(a)) + 1
                    S == [j \in 1 .. n |-> Digit(a, j) + Digit(b, j)]
                    G == {g \in 1 .. n : S[g] >= Radix}
                    Carry(j) == IF \E g \in G : g < j /\ \A l \in (g + 1) .. (j - 1) : S[l] = Radix - 1
                                THEN 1 ELSE 0
                IN  NTrim([j \in 1 .. n |-> (S[j] + Carry(j)) % Radix]),
                p[1], p[2])
      [] op = "NSub" ->
            Strict2(LAMBDA a, b :
                LET S == [j \in 1 .. Len(a) |-> a[j] - Digit(b, j)]
                    G == {g \in 1 .. Len(a) : S[g] < 0}
                    Borrow(j) == IF \E g \in G : g < j /\ \A l \in (g + 1) .. (j - 1) : S[l] = 0
                                 THEN 1 ELSE 0
                IN  NTrim([j \in 1 .. Len(a) |-> (S[j] - Borrow(j) + Radix) % Radix]),
                p[1], p[2])
      [] op = "NCmp" ->
            Strict2(LAMBDA a, b :
                IF Len(a) < Len(b) THEN -1
                ELSE IF Len(a) > Len(b) THEN 1
                ELSE LET D == {j \in 1 .. Len(a) : a[j] # b[j]}
                         h == CHOOSE j \in D : \A l \in D : l <= j
                     IN  IF D = {} THEN 0 ELSE IF a[h] < b[h] THEN -1 ELSE 1,
                p[1], p[2])
      [] op = "NMulSmall" ->
            (LET k == p[2]
             IN
                Strict1(LAMBDA a :
                    NAdd([j \in 1 .. Len(a) |-> (a[j] * k) % Radix],
                         <<0>> \o [j \in 1 .. Len(a) |-> (a[j] * k) \div Radix]),
                    p[1]))
      [] op = "NMul" ->
            Strict2(LAMBDA a, b :
                LET n == Len(a) + Len(b)
                    C == [j \in 1 .. n |-> ColSum(a, b, j, 1)]
                IN  NAdd(NAdd([j \in 1 .. n |-> C[j] % Radix],
                              <<0>> \o [j \in 1 .. n |-> (C[j] \div Radix) % Radix]),
                         <<0, 0>> \o [j \in 1 .. n |-> C[j] \div (Radix * Radix)]),
                p[1], p[2])
      [] op = "QDigit" ->
            Strict2(LAMBDA r, b :
                LET n   == Len(b)
                    top == Digit(r, n + 1) * Radix + Digit(r, n)
                    est == IF top \div b[n] >= Radix THEN Radix - 1 ELSE top \div b[n]
                IN  IF est = 0 \/ NCmp(NMulSmall(b, est), r) <= 0 THEN est
                    ELSE IF est = 1 \/ NCmp(NMulSmall(b, est - 1), r) <= 0 THEN est - 1
                    ELSE est - 2,
                p[1], p[2])
      [] op = "NDivMod" ->
            Strict2(LAMBDA a, b :
                IF Len(a) < Len(b) THEN [q |-> <<>>, r |-> a]
                ELSE Strict1(LAMBDA up :
                         Strict1(LAMBDA r1 :
                             Strict1(LAMBDA d :
                                 [q |-> NTrim(<<d>> \o up.q), r |-> NSub(r1, NMulSmall(b, d))],
                                 QDigit(r1, b)),
                             NTrim(<<Head(a)>> \o up.r)),
                         NDivMod(Tail(a), b)),
                p[1], p[2])
      [] op = "NQuot" ->
            Strict2(LAMBDA a, b :
                LET f == Radix \div (b[Len(b)] + 1)
                IN  IF b = <<1>> THEN a ELSE NDivMod(NMulSmall(a, f), NMulSmall(b, f)).q,
                p[1], p[2])
      [] op = "NShift" ->
            (LET k == p[2]
             IN
                Strict1(LAMBDA a : IF a = <<>> THEN a ELSE [j \in 1 .. k |-> 0] \o a, p[1]))
      [] op = "NDrop" ->
            (LET k == p[2]
             IN
                Strict1(LAMBDA a : IF Len(a) <= k THEN <<>> ELSE SubSeq(a, k + 1, Len(a)), p[1]))
      [] op = "ZOf" ->
            (LET s == p[1]
             IN
                Strict1(LAMBDA m : IF m = <<>> THEN [s |-> 0, m |-> <<>>] ELSE [s |-> s, m |-> m], p[2]))
      [] op = "Int2Big" ->
            (LET n == p[1]
             IN
                ZOf(ISign(n), Nat2Big(IAbs(n))))
      [] op = "ZNeg" ->
            Strict1(LAMBDA a : [s |-> -a.s, m |-> a.m], p[1])
      [] op = "ZAdd" ->
            Strict2(LAMBDA a, b :
                IF a.s = 0 THEN b
                ELSE IF b.s = 0 THEN a
                ELSE IF a.s = b.s THEN ZOf(a.s, NAdd(a.m, b.m))
                ELSE LET c == NCmp(a.m, b.m)
                     IN  IF c = 0 THEN ZOf(0, <<>>)
                         ELSE IF c > 0 THEN ZOf(a.s, NSub(a.m, b.m))
                         ELSE ZOf(b.s, NSub(b.m, a.m)),
                p[1], p[2])
      [] op = "ZSub" ->
            (LET a == p[1]  b == p[2]
             IN
                ZAdd(a, ZNeg(b)))
      [] op = "ZMul" ->
            Strict2(LAMBDA a, b : ZOf(a.s * b.s, NMul(a.m, b.m)), p[1], p[2])
      [] op = "ZQuot" ->
            Strict2(LAMBDA a, b : ZOf(a.s * b.s, NQuot(a.m, b.m)), p[1], p[2])
      [] op = "ZLess" ->
            Strict2(LAMBDA a, b :
                IF a.s # b.s THEN a.s < b.s
                ELSE IF a.s = 0 THEN FALSE
                ELSE IF a.s > 0 THEN NCmp(a.m, b.m) < 0
                ELSE NCmp(b.m, a.m) < 0,
                p[1], p[2])
      [] op = "ZMin" ->
            Strict2(LAMBDA a, b : IF ZLess(b, a) THEN b ELSE a, p[1], p[2])
      [] op = "ZMax" ->
            Strict2(LAMBDA a, b : IF ZLess(a, b) THEN b ELSE a, p[1], p[2])
      [] op = "Slack" ->
            (LET m == p[1]
             IN
                ZOf(1, NAdd(NMulSmall(NDrop(m, 4), 2), <<4>>)))
      [] op = "Widen" ->
            Strict2(LAMBDA lo, hi :
                Strict1(LAMBDA w : [lo |-> ZSub(lo, w), hi |-> ZAdd(hi, w)],
                        Slack(IF NCmp(lo.m, hi.m) < 0 THEN hi.m ELSE lo.m)),
                p[1], p[2])
      [] op = "Pow10Big" ->
            (LET k == p[1]
             IN
                NShift(<<Pow10(k % 4)>>, k \div 4))
      [] op = "FromNum" ->
            (LET u == p[1]
             IN
                LET k == 4 * Places + u.e
                IN  Strict1(LAMBDA q : IF u.d = 1 /\ u.e >= 0 THEN [lo |-> q, hi |-> q] ELSE Widen(q, q),
                            IF k >= 0
                            THEN ZQuot(ZMul(Int2Big(u.n), ZOf(1, Pow10Big(k))), Int2Big(u.d))
                            ELSE ZQuot(Int2Big(u.n), ZMul(Int2Big(u.d), ZOf(1, Pow10Big(-k))))))
      [] op = "Encl" ->
            (LET a == p[1]
             IN
                IF IsEncl(a) THEN a ELSE FromNum(a))
      [] op = "ENeg" ->
            Strict1(LAMBDA a : [lo |-> ZNeg(a.hi), hi |-> ZNeg(a.lo)], p[1])
      [] op = "EAbs" ->
            Strict1(LAMBDA a :
                IF a.lo.s >= 0 THEN a
                ELSE IF a.hi.s <= 0 THEN ENeg(a)
                ELSE [lo |-> ZOf(0, <<>>), hi |-> ZMax(ZNeg(a.lo), a.hi)],
                p[1])
      [] op = "EAdd" ->
            Strict2(LAMBDA a, b : Widen(ZAdd(a.lo, b.lo), ZAdd(a.hi, b.hi)), p[1], p[2])
      [] op = "Hull" ->
            (LET p1 == p[1]  p2 == p[2]  p3 == p[3]  p4 == p[4]
             IN
                Widen(ZMin(ZMin(p1, p2), ZMin(p3, p4)), ZMax(ZMax(p1, p2), ZMax(p3, p4))))
      [] op = "EProd" ->
            Strict2(LAMBDA v, w : ZOf(v.s * w.s, NDrop(NMul(v.m, w.m), Places)), p[1], p[2])
      [] op = "EMul" ->
            Strict2(LAMBDA a, b :
                Strict4(Hull, EProd(a.lo, b.lo), EProd(a.lo, b.hi), EProd(a.hi, b.lo), EProd(a.hi, b.hi)),
                p[1], p[2])
      [] op = "EQuot" ->
            (LET v == p[1]  w == p[2]
             IN
                ZQuot(ZMul(v, Scale), w))
      [] op = "EDiv" ->
            Strict2(LAMBDA a, b :
                Strict4(Hull, EQuot(a.lo, b.lo), EQuot(a.lo, b.hi), EQuot(a.hi, b.lo), EQuot(a.hi, b.hi)),
                p[1], p[2])
      [] op = "EZero" ->
            Strict1(LAMBDA a : a.lo.s <= 0 /\ a.hi.s >= 0, p[1])
      [] op = "ELess" ->
            Strict2(LAMBDA a, b : ZLess(a.hi, b.lo), p[1], p[2])
      [] op = "IsZero" ->
            (LET a == p[1]
             IN
                IF IsEncl(a) THEN EZero(a) ELSE a.n = 0)
      [] op = "RNeg" ->
            (LET a == p[1]
             IN
                IF IsEncl(a) THEN ENeg(a) ELSE [a EXCEPT !.n = -a.n])
      [] op = "RAbs" ->
            (LET a == p[1]
             IN
                IF IsEncl(a) THEN EAbs(a) ELSE [a EXCEPT !.n = IAbs(a.n)])
      [] op = "RAdd" ->
            (LET a == p[1]  b == p[2]
             IN
                IF IsEncl(a) \/ IsEncl(b) THEN EAdd(Encl(a), Encl(b)) ELSE AddOf(a, b))
      [] op = "RSub" ->
            (LET a == p[1]  b == p[2]
             IN
                RAdd(a, RNeg(b)))
      [] op = "RMul" ->
            (LET a == p[1]  b == p[2]
             IN
                IF IsEncl(a) \/ IsEncl(b) THEN EMul(Encl(a), Encl(b)) ELSE MulOf(a, b))
      [] op = "RDiv" ->
            (LET a == p[1]  b == p[2]
             IN
                IF IsEncl(a) \/ IsEncl(b) THEN EDiv(Encl(a), Encl(b)) ELSE MulOf(a, Inverse(b)))
      [] op = "RLess" ->
            (LET a == p[1]  b == p[2]
             IN
                IF IsEncl(a) \/ IsEncl(b) THEN ELess(Encl(a), Encl(b)) ELSE LessOf(a, b))
      [] op = "RRDenominator" ->
            (LET zz == p[1]  KK == p[2]  V == p[3]  j == p[4]
             IN
                RAdd(One, RMul(V, RSub(KK[j], One))))
      [] op = "RRSum" ->
            (LET zz == p[1]  KK == p[2]  V == p[3]  j == p[4]
             IN
                Strict1(LAMBDA acc :
                    IF j > Len(zz) THEN Ok(acc)
                    ELSE Strict1(LAMBDA den :
                             IF IsZero(den) THEN ZeroDivision
                             ELSE RRSum(zz, KK, V, j + 1,
                                        RAdd(acc, RDiv(RMul(zz[j], RSub(KK[j], One)), den))),
                             RRDenominator(zz, KK, V, j)),
                    p[5]))
      [] op = "rachford_rice" ->
            (LET zz == p[1]  KK == p[2]  V == p[3]
             IN
                RRSum(zz, KK, V, 1, Zero))
      [] op = "DRRSum" ->
            (LET zz == p[1]  KK == p[2]  V == p[3]  j == p[4]
             IN
                Strict1(LAMBDA acc :
                    IF j > Len(zz) THEN Ok(acc)
                    ELSE Strict2(LAMBDA den, km1 :
                             Strict1(LAMBDA den2 :
                                 IF IsZero(den2) THEN ZeroDivision
                                 ELSE DRRSum(zz, KK, V, j + 1,
                                             RAdd(acc, RDiv(RMul(RNeg(zz[j]), RMul(km1, km1)), den2))),
                                 RMul(den, den)),
                             RRDenominator(zz, KK, V, j), RSub(KK[j], One)),
                    p[5]))
      [] op = "d_rachford_rice" ->
            (LET zz == p[1]  KK == p[2]  V == p[3]
             IN
                DRRSum(zz, KK, V, 1, Zero))
      [] op = "RRElement" ->
            (LET f == p[1]  zz == p[2]  KK == p[3]  V == p[4]  j == p[5]
             IN
                LET km1 == RSub(KK[j], One)
                    den == RRDenominator(zz, KK, V, j)
                    num == IF f = "rachford_rice" THEN RMul(zz[j], km1)
                           ELSE RMul(RNeg(zz[j]), RMul(km1, km1))
                    div == IF f = "rachford_rice" THEN den ELSE RMul(den, den)
                IN  IF IsZero(div) THEN ZeroDivision ELSE Ok(RDiv(num, div)))
      [] op = "Apply" ->
            (LET f == p[1]  zz == p[2]  KK == p[3]  v == p[4]
             IN
                CASE f = "rachford_rice"        -> rachford_rice(zz, KK, v)
                  [] f = "d_rachford_rice"      -> d_rachford_rice(zz, KK, v)
                  [] f = "square_minus_two"     -> Ok(RSub(RMul(v, v), Int2Num(2)))
                  [] f = "square_plus_one"      -> Ok(RAdd(RMul(v, v), One))
                  [] f = "two_x"                -> Ok(RMul(Int2Num(2), v))
                  [] f = "flat_line"            -> Ok(RMul(Num(5, 1, -11), v))
                  [] f = "flat_slope"           -> Ok(Num(5, 1, -11))
                  [] f = "floor_line"           -> Ok(RMul(Num(1, 1, -10), v))
                  [] f = "floor_slope"          -> Ok(Num(1, 1, -10))
                  [] f = "constant_one"         -> Ok(One)
                  [] f = "reciprocal_minus_one" -> IF IsZero(v) THEN ZeroDivision
                                                   ELSE Ok(RSub(RDiv(One, v), One))
                  [] f = "d_reciprocal"         -> IF IsZero(RMul(v, v)) THEN ZeroDivision
                                                   ELSE Ok(RDiv(Int2Num(-1), RMul(v, v))))

MaxIter == 3

MaxIters == -1 .. MaxIter

Tols == {Zero, Num(1, 1, -6), Num(1, 2, 0)}

\* The calls made: a pair of callables with starting points and tolerances
Scenarios ==
    { [func |-> "square_minus_two", dfunc |-> "two_x",
       x0s |-> {Zero, One, Int2Num(2)}, tols |-> Tols],
      [func |-> "square_plus_one", dfunc |-> "two_x",
       x0s |-> {One}, tols |-> Tols],
      [func |-> "flat_line", dfunc |-> "flat_slope",
       x0s |-> {Zero, One}, tols |-> Tols],
      [func |-> "floor_line", dfunc |-> "floor_slope",
       x0s |-> {Zero, One}, tols |-> Tols],
      [func |-> "constant_one", dfunc |-> "constant_one",
       x0s |-> {Zero}, tols |-> Tols],
      [func |-> "reciprocal_minus_one", dfunc |-> "d_reciprocal",
       x0s |-> {Zero, One, Int2Num(2)}, tols |-> Tols],
      [func |-> "square_minus_two", dfunc |-> "d_reciprocal",
       x0s |-> {Zero, One}, tols |-> Tols],
      [func |-> "rachford_rice", dfunc |-> "d_rachford_rice",
       x0s |-> {Zero, Num(-5, 16, 0)}, tols |-> {Num(1, 2, 0)}] }

(* ------------------------------------------------------------------ *)
(* newton_raphson                                                      *)
(* ------------------------------------------------------------------ *)

\* no call of newton_raphson has been made
NoCall ==
    /\ pc = "idle"
    /\ func = "" /\ dfunc = ""
    /\ x0 = Zero /\ tol = Zero /\ max_iter = 0
    /\ x = <<>> /\ i = <<>> /\ f_x = <<>> /\ df_x = <<>> /\ x_new = <<>>
    /\ outcome = <<>>
    /\ nfunc = 0 /\ ndfunc = 0
    /\ iterates = <<>>
    /\ prev = <<>>

\* no thread has been started
NoThreads == inv = <<>>

\* the driver is not run
NoDriver ==
    /\ V0 = <<>> /\ V_solution = <<>>
    /\ dpc = "off"
    /\ stdout = <<>>

\* neither Rachford-Rice function is called outside newton_raphson
NoSums ==
    /\ rr_f = "" /\ rr_V = <<>>
    /\ rr_seen = <<>> /\ rr_sum = <<>> /\ rr_ret = <<>>

\* the petro_char_pcsaft_ml package is not used
NoPetro ==
    /\ files = <<>>
    /\ adj_model = <<>> /\ characterizer = <<>>
    /\ ret = <<>>

Init ==
    /\ z = ZInit
    /\ K = KInit
    /\ NoCall
    /\ NoThreads
    /\ NoDriver
    /\ NoSums
    /\ NoPetro

\* The summary of the call that just ended
Summary == [args |-> args, outcome |-> outcome, nfunc |-> nfunc, ndfunc |-> ndfunc]

\* Call with the iteration counter kept from the call before
Call_KeepsI ==
    /\ pc \in {"idle", "done"}
    /\ \E s \in Scenarios : \E a \in s.x0s : \E t \in s.tols : \E m \in MaxIters :
          /\ func' = s.func /\ dfunc' = s.dfunc
          /\ x0' = a /\ tol' = t /\ max_iter' = m
          /\ x' = <<a>>
          /\ iterates' = <<a>>
          /\ prev' = IF pc = "done" /\ args = <<s.func, s.dfunc, a, t, m>>
                     THEN <<Summary>> ELSE <<>>
    /\ i' = i /\ f_x' = <<>> /\ df_x' = <<>> /\ x_new' = <<>>
    /\ outcome' = <<>>
    /\ nfunc' = 0 /\ ndfunc' = 0
    /\ pc' = "for"
    /\ UNCHANGED <<others, z, K>>

\* newton_raphson(func, dfunc, x0, tol, max_iter) is entered: x = x0
Call ==
    /\ pc \in {"idle", "done"}
    /\ \E s \in Scenarios : \E a \in s.x0s : \E t \in s.tols : \E m \in MaxIters :
          /\ func' = s.func /\ dfunc' = s.dfunc
          /\ x0' = a /\ tol' = t /\ max_iter' = m
          /\ x' = <<a>>
          /\ iterates' = <<a>>
          /\ prev' = IF pc = "done" /\ args = <<s.func, s.dfunc, a, t, m>>
                     THEN <<Summary>> ELSE <<>>
    /\ i' = <<>> /\ f_x' = <<>> /\ df_x' = <<>> /\ x_new' = <<>>
    /\ outcome' = <<>>
    /\ nfunc' = 0 /\ ndfunc' = 0
    /\ pc' = "for"
    /\ UNCHANGED <<others, z, K>>

\* ForNext over range(1, max_iter)
ForNext_FromOne ==
    /\ pc = "for"
    /\ LET k == IF i = <<>> THEN 1 ELSE i[1] + 1
       IN  IF k < max_iter
           THEN /\ i' = <<k>>
                /\ pc' = "func"
                /\ UNCHANGED outcome
           ELSE /\ outcome' = <<ConvergenceFailure(max_iter)>>
                /\ pc' = "done"
                /\ UNCHANGED i
    /\ UNCHANGED <<others, z, K, args, x, f_x, df_x, x_new, ghost>>

\* ForNext over range(max_iter + 1)
ForNext_OneMore ==
    /\ pc = "for"
    /\ LET k == IF i = <<>> THEN 0 ELSE i[1] + 1
       IN  IF k <= max_iter
           THEN /\ i' = <<k>>
                /\ pc' = "func"
                /\ UNCHANGED outcome
           ELSE /\ outcome' = <<ConvergenceFailure(max_iter)>>
                /\ pc' = "done"
                /\ UNCHANGED i
    /\ UNCHANGED <<others, z, K, args, x, f_x, df_x, x_new, ghost>>

\* ForNext returning the last estimate when the loop is exhausted
ForNext_ReturnsLast ==
    /\ pc = "for"
    /\ LET k == IF i = <<>> THEN 0 ELSE i[1] + 1
       IN  IF k < max_iter
           THEN /\ i' = <<k>>
                /\ pc' = "func"
                /\ UNCHANGED outcome
           ELSE /\ outcome' = <<Returned(x[1])>>
                /\ pc' = "done"
                /\ UNCHANGED i
    /\ UNCHANGED <<others, z, K, args, x, f_x, df_x, x_new, ghost>>

\* ForNext with the message formatted from the loop variable i
ForNext_FormatsI ==
    /\ pc = "for"
    /\ LET k == IF i = <<>> THEN 0 ELSE i[1] + 1
       IN  IF k < max_iter
           THEN /\ i' = <<k>>
                /\ pc' = "func"
                /\ UNCHANGED outcome
           ELSE /\ outcome' = <<ConvergenceFailure(IF i = <<>> THEN 0 ELSE i[1])>>
                /\ pc' = "done"
                /\ UNCHANGED i
    /\ UNCHANGED <<others, z, K, args, x, f_x, df_x, x_new, ghost>>

\* ForNext over range(0, max_iter, 2)
ForNext_ByTwo ==
    /\ pc = "for"
    /\ LET k == IF i = <<>> THEN 0 ELSE i[1] + 2
       IN  IF k < max_iter
           THEN /\ i' = <<k>>
                /\ pc' = "func"
                /\ UNCHANGED outcome
           ELSE /\ outcome' = <<ConvergenceFailure(max_iter)>>
                /\ pc' = "done"
                /\ UNCHANGED i
    /\ UNCHANGED <<others, z, K, args, x, f_x, df_x, x_new, ghost>>

\* ForNext as a loop whose body runs at least once
ForNext_AtLeastOnce ==
    /\ pc = "for"
    /\ LET k == IF i = <<>> THEN 0 ELSE i[1] + 1
       IN  IF k < max_iter \/ i = <<>>
           THEN /\ i' = <<k>>
                /\ pc' = "func"
                /\ UNCHANGED outcome
           ELSE /\ outcome' = <<ConvergenceFailure(max_iter)>>
                /\ pc' = "done"
                /\ UNCHANGED i
    /\ UNCHANGED <<others, z, K, args, x, f_x, df_x, x_new, ghost>>

\* for i in range(max_iter): the next index, or the loop is exhausted and
\* the ValueError of line 29 is raised
ForNext ==
    /\ pc = "for"
    /\ LET k == IF i = <<>> THEN 0 ELSE i[1] + 1
       IN  IF k < max_iter
           THEN /\ i' = <<k>>
                /\ pc' = "func"
                /\ UNCHANGED outcome
           ELSE /\ outcome' = <<ConvergenceFailure(max_iter)>>
                /\ pc' = "done"
                /\ UNCHANGED i
    /\ UNCHANGED <<others, z, K, args, x, f_x, df_x, x_new, ghost>>

\* EvalFunc with the error of func reported as the derivative failure
EvalFunc_Converts ==
    /\ pc = "func"
    /\ LET r == Apply(func, z, K, x[1])
       IN  IF r.ok
           THEN /\ f_x' = r.val
                /\ pc' = "dfunc"
                /\ UNCHANGED outcome
           ELSE /\ outcome' = <<DerivativeTooSmall>>
                /\ pc' = "done"
                /\ UNCHANGED f_x
    /\ nfunc' = nfunc + 1
    /\ UNCHANGED <<others, z, K, args, x, i, df_x, x_new, ndfunc, iterates, prev>>

\* EvalFunc with rachford_rice consuming the feed: z.pop()
EvalFunc_PopsZ ==
    /\ pc = "func"
    /\ LET r == Apply(func, z, K, x[1])
       IN  IF r.ok
           THEN /\ f_x' = r.val
                /\ pc' = "dfunc"
                /\ UNCHANGED outcome
           ELSE /\ outcome' = <<Raised(r.exc, r.msg, <<>>)>>
                /\ pc' = "done"
                /\ UNCHANGED f_x
    /\ nfunc' = nfunc + 1
    /\ z' = IF func = "rachford_rice" /\ z # <<>> THEN SubSeq(z, 1, Len(z) - 1) ELSE z
    /\ UNCHANGED <<others, K, args, x, i, df_x, x_new, ndfunc, iterates, prev>>

\* f_x = func(x)
EvalFunc ==
    /\ pc = "func"
    /\ LET r == Apply(func, z, K, x[1])
       IN  IF r.ok
           THEN /\ f_x' = r.val
                /\ pc' = "dfunc"
                /\ UNCHANGED outcome
           ELSE /\ outcome' = <<Raised(r.exc, r.msg, <<>>)>>
                /\ pc' = "done"
                /\ UNCHANGED f_x
    /\ nfunc' = nfunc + 1
    /\ UNCHANGED <<others, z, K, args, x, i, df_x, x_new, ndfunc, iterates, prev>>

\* EvalDfunc with dfunc evaluated twice: dfunc(x); df_x = dfunc(x)
EvalDfunc_Twice ==
    /\ pc = "dfunc"
    /\ LET r == Apply(dfunc, z, K, x[1])
       IN  IF r.ok
           THEN /\ df_x' = r.val
                /\ pc' = "floor"
                /\ UNCHANGED outcome
           ELSE /\ outcome' = <<Raised(r.exc, r.msg, <<>>)>>
                /\ pc' = "done"
                /\ UNCHANGED df_x
    /\ ndfunc' = ndfunc + 2
    /\ UNCHANGED <<others, z, K, args, x, i, f_x, x_new, nfunc, iterates, prev>>

\* df_x = dfunc(x)
EvalDfunc ==
    /\ pc = "dfunc"
    /\ LET r == Apply(dfunc, z, K, x[1])
       IN  IF r.ok
           THEN /\ df_x' = r.val
                /\ pc' = "floor"
                /\ UNCHANGED outcome
           ELSE /\ outcome' = <<Raised(r.exc, r.msg, <<>>)>>
                /\ pc' = "done"
                /\ UNCHANGED df_x
    /\ ndfunc' = ndfunc + 1
    /\ UNCHANGED <<others, z, K, args, x, i, f_x, x_new, nfunc, iterates, prev>>

\* CheckDerivative with the floor itself rejected: abs(df_x) <= 1e-10
CheckDerivative_AtMost ==
    /\ pc = "floor"
    /\ IF ~RLess(DerivFloor, RAbs(df_x[1]))
       THEN /\ outcome' = <<DerivativeTooSmall>>
            /\ pc' = "done"
       ELSE /\ pc' = "update"
            /\ UNCHANGED outcome
    /\ UNCHANGED <<others, z, K, args, locals, ghost>>

\* CheckDerivative after a test for a root: if f_x == 0: return x
CheckDerivative_RootFirst ==
    /\ pc = "floor"
    /\ IF IsZero(f_x[1])
       THEN /\ outcome' = <<Returned(x[1])>>
            /\ pc' = "done"
       ELSE IF RLess(RAbs(df_x[1]), DerivFloor)
       THEN /\ outcome' = <<DerivativeTooSmall>>
            /\ pc' = "done"
       ELSE /\ pc' = "update"
            /\ UNCHANGED outcome
    /\ UNCHANGED <<others, z, K, args, locals, ghost>>

\* if abs(df_x) < 1e-10: raise ValueError(...)
CheckDerivative ==
    /\ pc = "floor"
    /\ IF RLess(RAbs(df_x[1]), DerivFloor)
       THEN /\ outcome' = <<DerivativeTooSmall>>
            /\ pc' = "done"
       ELSE /\ pc' = "update"
            /\ UNCHANGED outcome
    /\ UNCHANGED <<others, z, K, args, locals, ghost>>

\* NewtonUpdate with the correction added: x_new = x + f_x / df_x
NewtonUpdate_Plus ==
    /\ pc = "update"
    /\ IF IsZero(df_x[1])
       THEN /\ outcome' = <<Raised(ZeroDivision.exc, ZeroDivision.msg, <<>>)>>
            /\ pc' = "done"
            /\ UNCHANGED x_new
       ELSE /\ x_new' = <<RAdd(x[1], RDiv(f_x[1], df_x[1]))>>
            /\ pc' = "tol"
            /\ UNCHANGED outcome
    /\ UNCHANGED <<others, z, K, args, x, i, f_x, df_x, ghost>>

\* x_new = x - f_x / df_x;  the division raises ZeroDivisionError for df_x = 0
NewtonUpdate ==
    /\ pc = "update"
    /\ IF IsZero(df_x[1])
       THEN /\ outcome' = <<Raised(ZeroDivision.exc, ZeroDivision.msg, <<>>)>>
            /\ pc' = "done"
            /\ UNCHANGED x_new
       ELSE /\ x_new' = <<RSub(x[1], RDiv(f_x[1], df_x[1]))>>
            /\ pc' = "tol"
            /\ UNCHANGED outcome
    /\ UNCHANGED <<others, z, K, args, x, i, f_x, df_x, ghost>>

\* CheckTolerance returning the estimate the step was taken from: return x
CheckTolerance_ReturnsX ==
    /\ pc = "tol"
    /\ IF RLess(RAbs(RSub(x_new[1], x[1])), tol)
       THEN /\ outcome' = <<Returned(x[1])>>
            /\ pc' = "done"
            /\ UNCHANGED <<x, iterates>>
       ELSE /\ x' = x_new
            /\ iterates' = Append(iterates, x_new[1])
            /\ pc' = "for"
            /\ UNCHANGED outcome
    /\ UNCHANGED <<others, z, K, args, i, f_x, df_x, x_new, nfunc, ndfunc, prev>>

\* CheckTolerance on the signed step: x_new - x < tol
CheckTolerance_NoAbs ==
    /\ pc = "tol"
    /\ IF RLess(RSub(x_new[1], x[1]), tol)
       THEN /\ outcome' = <<Returned(x_new[1])>>
            /\ pc' = "done"
            /\ UNCHANGED <<x, iterates>>
       ELSE /\ x' = x_new
            /\ iterates' = Append(iterates, x_new[1])
            /\ pc' = "for"
            /\ UNCHANGED outcome
    /\ UNCHANGED <<others, z, K, args, i, f_x, df_x, x_new, nfunc, ndfunc, prev>>

\* CheckTolerance accepting a step equal to the tolerance: abs(x_new - x) <= tol
CheckTolerance_AtMost ==
    /\ pc = "tol"
    /\ IF ~RLess(tol, RAbs(RSub(x_new[1], x[1])))
       THEN /\ outcome' = <<Returned(x_new[1])>>
            /\ pc' = "done"
            /\ UNCHANGED <<x, iterates>>
       ELSE /\ x' = x_new
            /\ iterates' = Append(iterates, x_new[1])
            /\ pc' = "for"
            /\ UNCHANGED outcome
    /\ UNCHANGED <<others, z, K, args, i, f_x, df_x, x_new, nfunc, ndfunc, prev>>

\* if abs(x_new - x) < tol: return x_new;  otherwise x = x_new
CheckTolerance ==
    /\ pc = "tol"
    /\ IF RLess(RAbs(RSub(x_new[1], x[1])), tol)
       THEN /\ outcome' = <<Returned(x_new[1])>>
            /\ pc' = "done"
            /\ UNCHANGED <<x, iterates>>
       ELSE /\ x' = x_new
            /\ iterates' = Append(iterates, x_new[1])
            /\ pc' = "for"
            /\ UNCHANGED outcome
    /\ UNCHANGED <<others, z, K, args, i, f_x, df_x, x_new, nfunc, ndfunc, prev>>

\* One step of the call in progress
Step ==
    \/ ForNext
    \/ EvalFunc
    \/ EvalDfunc
    \/ CheckDerivative
    \/ NewtonUpdate
    \/ CheckTolerance

Next ==
    \/ Call
    \/ Step

Spec == Init /\ [][Next]_vars

\* A call that was entered keeps running: the interpreter executes the next
\* statement of the function, and nothing suspends or cancels it.
LiveSpec == Spec /\ WF_vars(Step)

(* ------------------------------------------------------------------ *)
(* Properties                                                          *)
(* ------------------------------------------------------------------ *)

Done == pc = "done"

Running == pc \notin {"idle", "done"}

\* abs(v) < 1e-10
Small(v) == RLess(RAbs(v), DerivFloor)

\* abs(b - a) < tol
WithinTol(a, b) == RLess(RAbs(RSub(b, a)), tol)

\* the number of iterations of the current call that ran to x = x_new
Completed == Len(iterates) - 1

\* v - func(v) / dfunc(v), at a v where both are defined and dfunc(v) # 0
NewtonStepAt(v) ==
    RSub(v, RDiv(Apply(func, z, K, v).val[1], Apply(dfunc, z, K, v).val[1]))

\* C1: the derivative is checked before the Newton division; the call fails
\* with DerivativeTooSmall exactly at the first iterate x with |dfunc(x)| < 1e-10,
\* does nothing more after it (x is not updated, func and dfunc are not
\* evaluated again), and an iterate with |dfunc(x)| >= 1e-10 never fails so.
C1_DerivativeFloor ==
    /\ pc \in {"update", "tol"} => ~Small(df_x[1])
    /\ (outcome # <<>>) <=> Done
    /\ \A k \in 1 .. ndfunc :
          LET r == Apply(dfunc, z, K, iterates[k])
          IN  (r.ok /\ Small(r.val[1])) =>
                 /\ k = Len(iterates)
                 /\ pc = "floor" \/ (Done /\ outcome[1] = DerivativeTooSmall)
    /\ (Done /\ outcome[1] = DerivativeTooSmall) =>
          /\ nfunc = Len(iterates) /\ ndfunc = Len(iterates)
          /\ i = <<Len(iterates) - 1>>
          /\ x[1] = iterates[Len(iterates)]
          /\ LET r == Apply(dfunc, z, K, x[1])
             IN  r.ok /\ Small(r.val[1]) /\ df_x = r.val
          /\ \A k \in 1 .. Len(iterates) - 1 :
                LET r == Apply(dfunc, z, K, iterates[k])
                IN  r.ok /\ ~Small(r.val[1])

\* a call that failed with DerivativeTooSmall at its second iterate
C1_Witness ==
    /\ Done /\ outcome[1] = DerivativeTooSmall
    /\ Len(iterates) = 2 /\ nfunc = 2 /\ ndfunc = 2

C3_ReturnsUpdatedEstimate ==
    (Done /\ outcome[1].kind = "return") =>
        LET n  == Len(iterates)
            xl == iterates[n]
        IN  /\ outcome[1].value = <<NewtonStepAt(xl)>>
            /\ outcome[1].value = x_new
            /\ x[1] = xl
            /\ WithinTol(xl, outcome[1].value[1])
            /\ \A k \in 1 .. n - 1 :
                  /\ iterates[k + 1] = NewtonStepAt(iterates[k])
                  /\ ~WithinTol(iterates[k], iterates[k + 1])

\* a root returned from a later iteration, different from the x of that iteration
C3_Witness ==
    /\ Done /\ outcome[1].kind = "return"
    /\ Len(iterates) >= 2
    /\ outcome[1].value # x

\* tolerance > 0, max_iter >= 1, and x0 is a root of func with dfunc(x0) # 0
C4_RootSeeded ==
    /\ pc # "idle"
    /\ RLess(Zero, tol) /\ max_iter >= 1
    /\ Apply(func, z, K, x0) = Ok(Zero)
    /\ Apply(dfunc, z, K, x0).ok /\ ~IsZero(Apply(dfunc, z, K, x0).val[1])

\* the call returns x0 in its first iteration after one evaluation of each callable
C4_FirstIteration ==
    /\ nfunc <= 1 /\ ndfunc <= 1 /\ Completed = 0
    /\ Done => (outcome[1] = Returned(x0) /\ i = <<0>> /\ nfunc = 1 /\ ndfunc = 1)

\* C4 as stated: seeding x0 = r, a root of func with dfunc(r) # 0, returns r in
\* the first iteration after exactly one evaluation of func and of dfunc.
C4_Original == C4_RootSeeded => C4_FirstIteration

\* C4, amended: seeding x0 = r, a root of func with |dfunc(r)| >= 1e-10
\* (tolerance > 0, max_iter >= 1), returns r in the first iteration after
\* exactly one evaluation of func and one of dfunc.
C4_RootSeedReturns ==
    (C4_RootSeeded /\ ~Small(Apply(dfunc, z, K, x0).val[1])) => C4_FirstIteration

\* a call seeded with the root 1 has returned it
C4_Witness ==
    /\ C4_RootSeeded /\ Done
    /\ x0 = One /\ outcome[1] = Returned(One)
    /\ nfunc = 1 /\ ndfunc = 1

\* C5: a caller can tell the DerivativeTooSmall failure from the
\* ConvergenceFailure failure, and both from the return of a number.
C5_Distinguishable ==
    Done =>
        LET o == outcome[1]
        IN  /\ (df_x # <<>> /\ Small(df_x[1])) =>
                  /\ o.kind = "raise" /\ o.value = <<>>
                  /\ \A m \in MaxIters : o # ConvergenceFailure(m)
            /\ (nfunc = ndfunc /\ Completed >= max_iter /\ Completed = nfunc) =>
                  /\ o.kind = "raise" /\ o.value = <<>>
                  /\ o # DerivativeTooSmall
            /\ o.kind = "return" =>
                  /\ Len(o.value) = 1 /\ o.exc = "" /\ o.msg = ""
                  /\ o # DerivativeTooSmall
                  /\ \A m \in MaxIters : o # ConvergenceFailure(m)

\* a call that exhausted a budget of at least two iterations
C5_Witness ==
    /\ Done /\ max_iter >= 2 /\ Completed = max_iter
    /\ outcome[1].kind = "raise" /\ outcome[1] # DerivativeTooSmall

\* the evaluations and completed iterations of a call stay within max_iter
C6_Bound ==
    LET budget == IF max_iter > 0 THEN max_iter ELSE 0
    IN  nfunc <= budget /\ ndfunc <= budget /\ Completed <= budget

\* C6: every call whose func and dfunc return terminates, after at most
\* max_iter iterations: func and dfunc are each evaluated at most max_iter times.
C6_Terminates == [](pc # "idle" => C6_Bound) /\ (Running ~> Done)

\* a call that ended having used its whole budget of MaxIter evaluations
C6_Witness == Done /\ max_iter = MaxIter /\ nfunc = MaxIter /\ ndfunc = MaxIter

\* the outcome is a root: x_new of an iteration whose step met the tolerance
C7_ConvergedRoot(o) ==
    /\ x_new # <<>>
    /\ o = Returned(x_new[1])
    /\ nfunc = Len(iterates) /\ ndfunc = Len(iterates)
    /\ WithinTol(iterates[Len(iterates)], x_new[1])

\* the outcome is the error that func or dfunc raised at the last iterate
C7_Propagated(o) ==
    /\ nfunc = Len(iterates)
    /\ LET rf == Apply(func, z, K, iterates[nfunc])
       IN  IF ~rf.ok THEN o = Raised(rf.exc, rf.msg, <<>>)
           ELSE /\ ndfunc = nfunc
                /\ LET rd == Apply(dfunc, z, K, iterates[nfunc])
                   IN  ~rd.ok /\ o = Raised(rd.exc, rd.msg, <<>>)

C8_Deterministic ==
    (Done /\ prev # <<>>) =>
        /\ prev[1].args = args
        /\ prev[1].outcome = outcome
        /\ prev[1].nfunc = nfunc
        /\ prev[1].ndfunc = ndfunc

\* the second of two identical calls has returned a root after two iterations
C8_Witness ==
    /\ Done /\ prev # <<>>
    /\ outcome[1].kind = "return" /\ nfunc = 2

\* C9: an error raised by func or dfunc at an iterate ends the call with that
\* same error, not converted and not swallowed, and with no further iteration.
C9_ErrorsPropagate ==
    /\ \A k \in 1 .. nfunc :
          LET r == Apply(func, z, K, iterates[k])
          IN  ~r.ok =>
                 /\ k = Len(iterates) /\ nfunc = k /\ ndfunc = k - 1
                 /\ Done /\ outcome[1] = Raised(r.exc, r.msg, <<>>)
    /\ \A k \in 1 .. ndfunc :
          LET r == Apply(dfunc, z, K, iterates[k])
          IN  ~r.ok =>
                 /\ k = Len(iterates) /\ nfunc = k /\ ndfunc = k
                 /\ Done /\ outcome[1] = Raised(r.exc, r.msg, <<>>)

\* rachford_rice was evaluated at a V with 1 + V*(K[1] - 1) = 0
C9_Witness ==
    /\ Done /\ func = "rachford_rice"
    /\ IsZero(RRDenominator(z, K, x[1], 1))
    /\ outcome[1] = Raised("ZeroDivisionError", "float division by zero", <<>>)

\* C10: the calls have no side effects: z and K keep their initial values
\* through any sequence of calls, and a running call leaves its arguments as
\* they were passed.
C10_NoSideEffects ==
    /\ [](z = ZInit /\ K = KInit)
    /\ [][Running => UNCHANGED args]_vars

\* a repeated call on the Rachford-Rice functions has returned
C10_Witness ==
    /\ Done /\ prev # <<>>
    /\ func = "rachford_rice" /\ outcome[1].kind = "return"
    /\ z = ZInit /\ K = KInit

\* the statements of the loop body: func, dfunc, the floor test, the update
\* and the tolerance test with its assignment x = x_new
InLoopBody == pc \in {"func", "dfunc", "floor", "update", "tol"}

\* C18: in a call with max_iter > 0 the iteration count i satisfies
\* 0 <= i < max_iter wherever func or dfunc is evaluated or x is updated; i
\* is 0 in the first iteration and grows by exactly one per iteration.
C18_IterationCount ==
    /\ [](InLoopBody =>
            /\ max_iter > 0
            /\ i # <<>> /\ 0 <= i[1] /\ i[1] < max_iter
            /\ i[1] = Completed)
    /\ [][(Running /\ i' # i) =>
            /\ pc = "for" /\ pc' = "func"
            /\ i' = <<IF i = <<>> THEN 0 ELSE i[1] + 1>>]_vars
    /\ [][(Running /\ Len(iterates') > Len(iterates)) =>
            /\ pc = "tol" /\ pc' = "for"
            /\ i' = i /\ i[1] = Completed /\ i[1] < max_iter]_vars

\* the last iteration the budget allows is at its tolerance test
C18_Witness ==
    /\ pc = "tol" /\ max_iter = MaxIter
    /\ i = <<MaxIter - 1>> /\ Completed = MaxIter - 1

\* the step of the iteration in progress equals the tolerance: abs(x_new - x) = tol
StepEqualsTol ==
    /\ pc = "tol"
    /\ RAbs(RSub(x_new[1], x[1])) = tol

\* C19 as stated: a step with |x_new - x| equal to tol is accepted as
\* converged and x_new is returned, as a step smaller than tol is.
C19_Original ==
    [][StepEqualsTol => (pc' = "done" /\ outcome' = <<Returned(x_new[1])>>)]_vars

\* C19, amended: only a step strictly smaller than tol is accepted. A step
\* with |x_new - x| equal to tol is not: nothing is returned from that
\* iteration, x becomes x_new and the loop goes on.
C19_StrictTolerance ==
    /\ [][StepEqualsTol =>
            /\ pc' = "for" /\ outcome' = <<>>
            /\ x' = x_new /\ iterates' = Append(iterates, x_new[1])]_vars
    /\ [][(pc = "tol" /\ pc' = "done") =>
            /\ RLess(RAbs(RSub(x_new[1], x[1])), tol)
            /\ outcome' = <<Returned(x_new[1])>>]_vars

\* a first step of exactly the positive tolerance was taken and the call went on
C19_Witness ==
    /\ Running /\ Len(iterates) >= 2
    /\ RLess(Zero, tol)
    /\ RAbs(RSub(iterates[2], iterates[1])) = tol

(* ------------------------------------------------------------------ *)
(* Calls of newton_raphson from several threads                        *)
(* ------------------------------------------------------------------ *)

\* newton_raphson(f, df, xx, t, m) from its k-th iteration on, with the feed
\* zz, KK: the outcome of the call when nothing else runs
RECURSIVE Iterate(_, _, _, _, _, _, _, _)
Iterate(f, df, zz, KK, xx, t, m, k) ==
    IF k >= m THEN ConvergenceFailure(m)
    ELSE LET rf == Apply(f, zz, KK, xx)
         IN  IF ~rf.ok THEN Raised(rf.exc, rf.msg, <<>>)
             ELSE LET rd == Apply(df, zz, KK, xx)
                  IN  IF ~rd.ok THEN Raised(rd.exc, rd.msg, <<>>)
                      ELSE IF RLess(RAbs(rd.val[1]), DerivFloor) THEN DerivativeTooSmall
                      ELSE IF IsZero(rd.val[1])
                           THEN Raised(ZeroDivision.exc, ZeroDivision.msg, <<>>)
                      ELSE LET xn == RSub(xx, RDiv(rf.val[1], rd.val[1]))
                           IN  IF RLess(RAbs(RSub(xn, xx)), t) THEN Returned(xn)
                               ELSE Iterate(f, df, zz, KK, xn, t, m, k + 1)

newton_raphson(f, df, zz, KK, a, t, m) == Iterate(f, df, zz, KK, a, t, m, 0)

NThreads == 2

Threads == 1 .. NThreads

\* The calls the threads make on the Rachford-Rice functions: (x0, tol, max_iter)
ThreadCalls ==
    { <<Zero, Num(1, 2, 0), 0>>, <<Zero, Num(1, 2, 0), 1>>, <<Zero, Num(1, 2, 0), 2>>,
      <<Zero, Zero, 1>>, <<Num(-5, 16, 0), Num(1, 2, 0), 1>> }

\* a thread that has called nothing yet
IdleFrame ==
    [pc |-> "idle", func |-> "", dfunc |-> "", x0 |-> Zero, tol |-> Zero, max_iter |-> 0,
     x |-> <<>>, i |-> <<>>, f_x |-> <<>>, df_x |-> <<>>, x_new |-> <<>>, outcome |-> <<>>]

\* the frame of newton_raphson(rachford_rice, d_rachford_rice, a, t, m) on entry
EntryFrame(a, t, m) ==
    [pc |-> "for", func |-> "rachford_rice", dfunc |-> "d_rachford_rice",
     x0 |-> a, tol |-> t, max_iter |-> m,
     x |-> <<a>>, i |-> <<>>, f_x |-> <<>>, df_x |-> <<>>, x_new |-> <<>>, outcome |-> <<>>]

\* the frame s after its next statement, which reads the feed zz, KK
FrameStep(s, zz, KK) ==
    CASE s.pc = "for" ->
            LET k == IF s.i = <<>> THEN 0 ELSE s.i[1] + 1
            IN  IF k < s.max_iter
                THEN [s EXCEPT !.i = <<k>>, !.pc = "func"]
                ELSE [s EXCEPT !.outcome = <<ConvergenceFailure(s.max_iter)>>, !.pc = "done"]
      [] s.pc = "func" ->
            LET r == Apply(s.func, zz, KK, s.x[1])
            IN  IF r.ok THEN [s EXCEPT !.f_x = r.val, !.pc = "dfunc"]
                ELSE [s EXCEPT !.outcome = <<Raised(r.exc, r.msg, <<>>)>>, !.pc = "done"]
      [] s.pc = "dfunc" ->
            LET r == Apply(s.dfunc, zz, KK, s.x[1])
            IN  IF r.ok THEN [s EXCEPT !.df_x = r.val, !.pc = "floor"]
                ELSE [s EXCEPT !.outcome = <<Raised(r.exc, r.msg, <<>>)>>, !.pc = "done"]
      [] s.pc = "floor" ->
            IF RLess(RAbs(s.df_x[1]), DerivFloor)
            THEN [s EXCEPT !.outcome = <<DerivativeTooSmall>>, !.pc = "done"]
            ELSE [s EXCEPT !.pc = "update"]
      [] s.pc = "update" ->
            IF IsZero(s.df_x[1])
            THEN [s EXCEPT !.outcome = <<Raised(ZeroDivision.exc, ZeroDivision.msg, <<>>)>>,
                           !.pc = "done"]
            ELSE [s EXCEPT !.x_new = <<RSub(s.x[1], RDiv(s.f_x[1], s.df_x[1]))>>, !.pc = "tol"]
      [] s.pc = "tol" ->
            IF RLess(RAbs(RSub(s.x_new[1], s.x[1])), s.tol)
            THEN [s EXCEPT !.outcome = <<Returned(s.x_new[1])>>, !.pc = "done"]
            ELSE [s EXCEPT !.x = s.x_new, !.pc = "for"]

ThreadsInit ==
    /\ z = ZInit
    /\ K = KInit
    /\ NoCall
    /\ NoDriver
    /\ NoSums
    /\ NoPetro
    /\ inv = [t \in Threads |-> IdleFrame]

\* ThreadCall with the estimate x kept in one cell that every frame uses
ThreadCall_SharedX(t) ==
    /\ inv[t].pc \in {"idle", "done"}
    /\ \E c \in ThreadCalls :
          inv' = [u \in Threads |->
                     IF u = t THEN EntryFrame(c[1], c[2], c[3])
                     ELSE IF inv[u].x = <<>> THEN inv[u]
                     ELSE [inv[u] EXCEPT !.x = <<c[1]>>]]
    /\ UNCHANGED <<z, K, args, locals, outcome, pc, ghost, driver, sums, petro>>

\* thread t enters newton_raphson(rachford_rice, d_rachford_rice, x0, tol, max_iter)
ThreadCall(t) ==
    /\ inv[t].pc \in {"idle", "done"}
    /\ \E c \in ThreadCalls :
          inv' = [inv EXCEPT ![t] = EntryFrame(c[1], c[2], c[3])]
    /\ UNCHANGED <<z, K, args, locals, outcome, pc, ghost, driver, sums, petro>>

\* thread t executes the next statement of its call
ThreadStep(t) ==
    /\ inv[t].pc \notin {"idle", "done"}
    /\ inv' = [inv EXCEPT ![t] = FrameStep(inv[t], z, K)]
    /\ UNCHANGED <<z, K, args, locals, outcome, pc, ghost, driver, sums, petro>>

ThreadsNext == \E t \in Threads : ThreadCall(t) \/ ThreadStep(t)

\* Threads, scheduled in any order, with no synchronization between them
ThreadsSpec == ThreadsInit /\ [][ThreadsNext]_vars

\* C11: calls of newton_raphson on the Rachford-Rice functions that run
\* concurrently, their statements interleaved in any order, each end with the
\* outcome the same call produces when it runs alone; while it runs, a call's
\* arguments and the feed stay as they were.
C11_Independent ==
    /\ z = ZInit /\ K = KInit
    /\ \A t \in Threads :
          LET s == inv[t]
          IN  /\ (s.outcome # <<>>) <=> (s.pc = "done")
              /\ s.pc = "done" =>
                    s.outcome = <<newton_raphson(s.func, s.dfunc, ZInit, KInit,
                                                 s.x0, s.tol, s.max_iter)>>
              /\ s.pc \notin {"idle", "done"} =>
                    /\ (s.x = <<s.x0>> \/ s.x = s.x_new)

\* two calls that overlapped ended differently: one returned, one raised
C11_Witness ==
    /\ inv[1].pc = "done" /\ inv[1].outcome[1].kind = "return"
    /\ inv[2].pc = "tol" /\ inv[2].x0 = Zero /\ inv[2].tol = Zero

(* ------------------------------------------------------------------ *)
(* Long calls, followed in floating point                              *)
(* ------------------------------------------------------------------ *)

\* def newton_raphson(func, dfunc, x0, tol=1e-6, max_iter=100)
DefaultTol == Num(1, 1, -6)

DefaultMaxIter == 100

FloatScenarios ==
    { [func |-> "rachford_rice", dfunc |-> "d_rachford_rice",
       x0s |-> {Zero}, tols |-> {DefaultTol, Num(1, 1, -3)}],
      [func |-> "square_minus_two", dfunc |-> "two_x",
       x0s |-> {One, Int2Num(2)}, tols |-> {DefaultTol, Num(1, 1, -3)}] }

FloatBudgets == {MaxIter, DefaultMaxIter}

\* newton_raphson(func, dfunc, x0, tol, max_iter) is entered with floats
FloatCall ==
    /\ pc \in {"idle", "done"}
    /\ \E s \in FloatScenarios : \E a \in s.x0s : \E t \in s.tols : \E m \in FloatBudgets :
          /\ func' = s.func /\ dfunc' = s.dfunc
          /\ x0' = Encl(a) /\ tol' = Encl(t) /\ max_iter' = m
          /\ x' = <<Encl(a)>>
          /\ iterates' = <<Encl(a)>>
    /\ prev' = <<>>
    /\ i' = <<>> /\ f_x' = <<>> /\ df_x' = <<>> /\ x_new' = <<>>
    /\ outcome' = <<>>
    /\ nfunc' = 0 /\ ndfunc' = 0
    /\ pc' = "for"
    /\ UNCHANGED <<others, z, K>>

FloatNext ==
    \/ FloatCall
    \/ Step

FloatSpec == Init /\ [][FloatNext]_vars

\* the enclosures a and b overlap: a < b is not decided
Unsure(a, b) == ~ELess(Encl(a), Encl(b)) /\ ZLess(Encl(a).lo, Encl(b).hi)

\* the tests of the current call are decided by the enclosures, so that the
\* call takes the branches the floating-point run takes
Decided ==
    /\ pc = "floor" => ~Unsure(RAbs(df_x[1]), DerivFloor)
    /\ pc = "update" => ~IsZero(df_x[1])
    /\ pc = "tol" => ~Unsure(RAbs(RSub(x_new[1], x[1])), tol)

\* newton_raphson(rachford_rice, d_rachford_rice, 0) with the feed of the module
RachfordRiceRun ==
    /\ pc # "idle"
    /\ z = ZInit /\ K = KInit
    /\ func = "rachford_rice" /\ dfunc = "d_rachford_rice"
    /\ x0 = Encl(Zero) /\ tol = Encl(DefaultTol) /\ max_iter = DefaultMaxIter

\* C12: for z = [0.1, 0.2, 0.3, 0.4], K = [4.2, 1.75, 0.74, 0.34], x0 = 0,
\* tol = 1e-6 and max_iter = 100, newton_raphson on rachford_rice and
\* d_rachford_rice does not fail: it returns a V with |rachford_rice(V)| < 1e-5.
\* Every test on the way is decided, and the budget is not used up.
C12_RachfordRiceConverges ==
    RachfordRiceRun =>
        /\ Decided
        /\ nfunc < max_iter
        /\ Done =>
              /\ outcome[1].kind = "return"
              /\ LET r == rachford_rice(z, K, outcome[1].value[1])
                 IN  r.ok /\ RLess(RAbs(r.val[1]), Num(1, 1, -5))

\* the call has returned, from its fifth iteration
C12_Witness ==
    /\ RachfordRiceRun /\ Done
    /\ outcome[1].kind = "return" /\ nfunc = 5 /\ i = <<4>>

\* newton_raphson(lambda x: x**2 - 2, lambda x: 2*x, 1.0)
SquareRootRun ==
    /\ pc # "idle"
    /\ func = "square_minus_two" /\ dfunc = "two_x"
    /\ x0 = Encl(One) /\ tol = Encl(DefaultTol) /\ max_iter = DefaultMaxIter

\* abs(v - sqrt(2)) < t, for v > t > 0: (v - t)^2 < 2 < (v + t)^2
NearSqrt2(v, t) ==
    /\ RLess(Zero, RSub(v, t))
    /\ RLess(RMul(RSub(v, t), RSub(v, t)), Int2Num(2))
    /\ RLess(Int2Num(2), RMul(RAdd(v, t), RAdd(v, t)))

\* C13: for f(x) = x^2 - 2, f_derivative(x) = 2x, x0 = 1.0 and the default
\* tol = 1e-6, newton_raphson returns a value within the tolerance of the
\* square root of 2, and does so in fewer than 10 iterations.
C13_SquareRootOfTwo ==
    SquareRootRun =>
        /\ Decided
        /\ nfunc < 10 /\ Completed < 10
        /\ Done =>
              /\ outcome[1].kind = "return"
              /\ NearSqrt2(outcome[1].value[1], tol)

\* the call has returned after five iterations
C13_Witness ==
    /\ SquareRootRun /\ Done
    /\ outcome[1].kind = "return" /\ nfunc = 5 /\ Len(iterates) = 5

(* ------------------------------------------------------------------ *)
(* The driver (newton.py:43-51)                                        *)
(* ------------------------------------------------------------------ *)

\* V0 = 0 in the module; the other starting points make the call fail
DriverV0s == {Zero, Num(1, 1, 6), Num(-5, 16, 0)}

\* max_iter is not passed: the default, and smaller budgets that the
\* Rachford-Rice iteration uses up
DriverBudgets == {DefaultMaxIter} \cup (0 .. MaxIter)

DriverInit ==
    /\ z = ZInit
    /\ K = KInit
    /\ NoCall
    /\ NoThreads
    /\ NoSums
    /\ NoPetro
    /\ V0 \in {<<Encl(v)>> : v \in DriverV0s}
    /\ V_solution = <<>>
    /\ dpc = "try"
    /\ stdout = <<>>

\* except ValueError as e, with ZeroDivisionError written for ValueError
Caught_ZeroDivision(o) == o.kind = "raise" /\ o.exc = "ZeroDivisionError"

\* except ValueError as e
Caught(o) == o.kind = "raise" /\ o.exc = "ValueError"

\* try: ... newton_raphson(rachford_rice, d_rachford_rice, V0) is entered
DriverCall ==
    /\ dpc = "try"
    /\ pc = "idle"
    /\ \E m \in DriverBudgets : max_iter' = m
    /\ func' = "rachford_rice" /\ dfunc' = "d_rachford_rice"
    /\ x0' = V0[1] /\ tol' = Encl(DefaultTol)
    /\ x' = V0
    /\ iterates' = V0
    /\ prev' = <<>>
    /\ i' = <<>> /\ f_x' = <<>> /\ df_x' = <<>> /\ x_new' = <<>>
    /\ outcome' = <<>>
    /\ nfunc' = 0 /\ ndfunc' = 0
    /\ pc' = "for"
    /\ dpc' = "call"
    /\ UNCHANGED <<z, K, inv, sums, petro, V0, V_solution, stdout>>

\* V_solution = <the value returned>
DriverAssign ==
    /\ dpc = "call" /\ pc = "done"
    /\ outcome[1].kind = "return"
    /\ V_solution' = outcome[1].value
    /\ dpc' = "print"
    /\ UNCHANGED <<z, K, args, locals, pc, outcome, ghost, inv, sums, petro, V0, stdout>>

\* print("La solucion para V (fraccion de fase vapor) es:", V_solution)
DriverPrint ==
    /\ dpc = "print"
    /\ stdout' = Append(stdout, <<"La solucion para V (fraccion de fase vapor) es:", V_solution[1]>>)
    /\ dpc' = "end"
    /\ UNCHANGED <<z, K, args, locals, pc, outcome, ghost, inv, sums, petro, V0, V_solution>>

\* except ValueError as e: print("Error:", e)
DriverExcept ==
    /\ dpc = "call" /\ pc = "done"
    /\ Caught(outcome[1])
    /\ stdout' = Append(stdout, <<"Error:", outcome[1].msg, outcome[1].fmt>>)
    /\ dpc' = "end"
    /\ UNCHANGED <<z, K, args, locals, pc, outcome, ghost, inv, sums, petro, V0, V_solution>>

\* an exception no except clause matches leaves the module: traceback, exit
DriverUncaught ==
    /\ dpc = "call" /\ pc = "done"
    /\ outcome[1].kind = "raise" /\ ~Caught(outcome[1])
    /\ dpc' = "traceback"
    /\ UNCHANGED <<z, K, args, locals, pc, outcome, ghost, inv, sums, petro, V0, V_solution, stdout>>

DriverNext ==
    \/ DriverCall
    \/ Step
    \/ DriverAssign
    \/ DriverPrint
    \/ DriverExcept
    \/ DriverUncaught

DriverSpec == DriverInit /\ [][DriverNext]_vars

\* the call of the driver ended with a failure of the root finder
RootFinderFailure ==
    /\ Done
    /\ outcome[1] \in {DerivativeTooSmall, ConvergenceFailure(max_iter)}

\* C14: the driver catches either failure of the root finder (the derivative
\* failure, the convergence failure), prints it as "Error:" with its message
\* and comes to its normal end; such a failure never leaves the driver as an
\* uncaught error; a returned V is printed as the solution.
C14_DriverCatches ==
    /\ Decided
    /\ RootFinderFailure =>
          /\ dpc \in {"call", "end"}
          /\ dpc = "call" => (ENABLED DriverExcept /\ ~ENABLED DriverUncaught)
          /\ dpc = "end" =>
                /\ stdout = << <<"Error:", outcome[1].msg, outcome[1].fmt>> >>
                /\ V_solution = <<>>
    /\ dpc = "traceback" => (Done /\ outcome[1].kind = "raise" /\ ~RootFinderFailure)
    /\ (Done /\ outcome[1].kind = "return") =>
          /\ dpc \in {"call", "print", "end"}
          /\ dpc = "call" => ENABLED DriverAssign
          /\ dpc = "print" => (ENABLED DriverPrint /\ V_solution = outcome[1].value)
          /\ dpc = "end" =>
                /\ V_solution = outcome[1].value
                /\ stdout = << <<"La solucion para V (fraccion de fase vapor) es:",
                                 outcome[1].value[1]>> >>
    /\ dpc = "end" => (Done /\ Len(stdout) = 1)

\* the driver has ended normally after reporting the derivative failure of a
\* call with the default budget
C14_Witness ==
    /\ dpc = "end" /\ Done
    /\ max_iter = DefaultMaxIter
    /\ outcome[1] = DerivativeTooSmall
    /\ stdout = << <<"Error:", DerivativeTooSmall.msg, <<>> >> >>
(* ------------------------------------------------------------------ *)
(* The Rachford-Rice functions, term by term (newton.py:36-41)         *)
(* ------------------------------------------------------------------ *)

\* values of V: 0 (the driver's), values between and beyond the poles, and
\* the pole -1/(K[0] - 1) = -5/16
RRVs ==
    {Zero, Num(1, 1, -1), Num(12, 1, -2), Num(25, 1, -2), Num(5, 1, -1), Num(75, 1, -2),
     One, Int2Num(2), Num(-2, 1, -1), Int2Num(-1), Num(1, 1, 6), Num(-5, 16, 0)}

\* rachford_rice(V) or d_rachford_rice(V) is called: sum( starts from 0
RRInit ==
    /\ z = ZInit
    /\ K = KInit
    /\ NoCall
    /\ NoThreads
    /\ NoDriver
    /\ NoPetro
    /\ rr_f \in {"rachford_rice", "d_rachford_rice"}
    /\ rr_V \in {<<v>> : v \in RRVs}
    /\ rr_seen = <<>>
    /\ rr_sum = <<Zero>>
    /\ rr_ret = <<>>

\* the same step with range(1, len(z)) for range(len(z))
RRTerm_FromOne ==
    /\ rr_f # "" /\ rr_ret = <<>>
    /\ Len(rr_seen) + 1 < Len(z)
    /\ LET j == Len(rr_seen) + 2
           t == RRElement(rr_f, z, K, Encl(rr_V[1]), j)
       IN  /\ rr_seen' = Append(rr_seen, j - 1)
           /\ IF t.ok
              THEN rr_sum' = <<RAdd(rr_sum[1], t.val[1])>> /\ rr_ret' = rr_ret
              ELSE rr_ret' = <<t>> /\ rr_sum' = rr_sum
    /\ UNCHANGED <<z, K, args, locals, pc, outcome, ghost, inv, driver, petro, rr_f, rr_V>>

\* for i in range(len(z)): the next i, its element, and the addition sum( makes
RRTerm ==
    /\ rr_f # "" /\ rr_ret = <<>>
    /\ Len(rr_seen) < Len(z)
    /\ LET j == Len(rr_seen) + 1
           t == RRElement(rr_f, z, K, Encl(rr_V[1]), j)
       IN  /\ rr_seen' = Append(rr_seen, j - 1)
           /\ IF t.ok
              THEN rr_sum' = <<RAdd(rr_sum[1], t.val[1])>> /\ rr_ret' = rr_ret
              ELSE rr_ret' = <<t>> /\ rr_sum' = rr_sum
    /\ UNCHANGED <<z, K, args, locals, pc, outcome, ghost, inv, driver, petro, rr_f, rr_V>>

\* the generator is exhausted: return sum(...)
RRReturn ==
    /\ rr_f # "" /\ rr_ret = <<>>
    /\ Len(rr_seen) = Len(z)
    /\ rr_ret' = <<Ok(rr_sum[1])>>
    /\ UNCHANGED <<z, K, args, locals, pc, outcome, ghost, inv, driver, petro,
                   rr_f, rr_V, rr_seen, rr_sum>>

RRNext ==
    \/ RRTerm
    \/ RRReturn

RRSpec == RRInit /\ [][RRNext]_vars

\* Exact fractions p/q of long integers, q > 0, for the sums as written
QOf(u) ==
    [p |-> ZMul(Int2Big(u.n), ZOf(1, Pow10Big(IF u.e > 0 THEN u.e ELSE 0))),
     q |-> ZMul(Int2Big(u.d), ZOf(1, Pow10Big(IF u.e < 0 THEN -u.e ELSE 0)))]

QAdd(a, b) == [p |-> ZAdd(ZMul(a.p, b.q), ZMul(b.p, a.q)), q |-> ZMul(a.q, b.q)]

QMul(a, b) == [p |-> ZMul(a.p, b.p), q |-> ZMul(a.q, b.q)]

QNeg(a) == [p |-> ZNeg(a.p), q |-> a.q]

\* 1/a, for a # 0
QInv(a) == IF a.p.s < 0 THEN [p |-> ZNeg(a.q), q |-> ZNeg(a.p)] ELSE [p |-> a.q, q |-> a.p]

\* 1 + V*(K_i - 1), i = j - 1
ExactDenominator(V, j) == QAdd(QOf(One), QMul(QOf(V), QAdd(QOf(K[j]), QOf(Int2Num(-1)))))

\* z_i*(K_i - 1)/(1 + V*(K_i - 1)), or -z_i*(K_i - 1)^2/(1 + V*(K_i - 1))^2
ExactTerm(f, V, j) ==
    LET km1 == QAdd(QOf(K[j]), QOf(Int2Num(-1)))
        den == ExactDenominator(V, j)
    IN  IF f = "rachford_rice"
        THEN QMul(QMul(QOf(z[j]), km1), QInv(den))
        ELSE QMul(QNeg(QMul(QOf(z[j]), QMul(km1, km1))), QInv(QMul(den, den)))

\* the sum of the terms of the indices 0 .. n-1
RECURSIVE ExactSum(_, _, _)
ExactSum(f, V, n) ==
    IF n = 0 THEN QOf(Zero) ELSE QAdd(ExactSum(f, V, n - 1), ExactTerm(f, V, n))

\* no denominator is zero at V
NoPole(V) == \A j \in 1 .. Len(z) : ExactDenominator(V, j).p.s # 0

\* the floating-point value v is the fraction a, up to rounding: the
\* enclosure of v contains a and is narrower than 10^-8
Equals(v, a) ==
    LET e == Encl(v)
    IN  /\ ~ZLess(ZMul(a.p, Scale), ZMul(e.lo, a.q))
        /\ ~ZLess(ZMul(e.hi, a.q), ZMul(a.p, Scale))
        /\ ZLess(ZMul(ZSub(e.hi, e.lo), ZOf(1, Pow10Big(8))), Scale)

\* C20: for every V at which no denominator is zero, rachford_rice(V) is the
\* sum over i = 0 .. len(z)-1 of z_i*(K_i - 1)/(1 + V*(K_i - 1)) and
\* d_rachford_rice(V) the sum over the same indices, in the same order, of
\* -z_i*(K_i - 1)^2/(1 + V*(K_i - 1))^2: i takes the values 0, 1, ... in this
\* order, the running total is the sum of the terms so far, the call returns
\* after exactly the indices 0 .. len(z)-1, and what it returns is what
\* newton_raphson gets from the function.
C20_SumOverIndices ==
    (rr_f # "" /\ NoPole(rr_V[1])) =>
        /\ rr_seen = [k \in 1 .. Len(rr_seen) |-> k - 1]
        /\ Len(rr_seen) <= Len(z)
        /\ Equals(rr_sum[1], ExactSum(rr_f, rr_V[1], Len(rr_seen)))
        /\ rr_ret # <<>> =>
              /\ Len(rr_seen) = Len(z)
              /\ rr_ret[1].ok
              /\ Equals(rr_ret[1].val[1], ExactSum(rr_f, rr_V[1], Len(z)))
              /\ rr_ret[1] = Apply(rr_f, z, K, Encl(rr_V[1]))

\* d_rachford_rice(0.25) has returned, after its four terms
C20_Witness ==
    /\ rr_f = "d_rachford_rice" /\ rr_V = <<Num(25, 1, -2)>>
    /\ NoPole(rr_V[1])
    /\ rr_seen = <<0, 1, 2, 3>>
    /\ rr_ret # <<>> /\ rr_ret[1].ok
(* ------------------------------------------------------------------ *)
(* petro_char_pcsaft_ml: ParameterAdjustmentModel (ml_model.py) and    *)
(* PetroleumCharacterization (characterization.py)                     *)
(*                                                                     *)
(* None is the string "None"; a dict is a record; a list is a          *)
(* sequence; what the methods print is left out.                       *)
(* ------------------------------------------------------------------ *)

\* <project root>/data/pseudo_components_initial.json (characterization.py:63-64)
DefaultParamsPath == "data/pseudo_components_initial.json"

ParamsPaths == {DefaultParamsPath, "params.json"}

\* what open() and json.load() find at a path: no file, a file that is not
\* JSON, a file that may not be read, a file holding a list of components
FileStates == {"missing", "invalid", "unreadable", "components"}

\* model_path / ml_model_path as passed by a caller
ModelPaths == {"None", "", "model.joblib"}

\* input_features / bulk_properties_whole_fluid as passed by a caller
Inputs ==
    {[API_gravity |-> 35, overall_molecular_weight |-> 150, T50_boiling_point |-> 300],
     [API_gravity |-> 30, overall_molecular_weight |-> 200],
     [viscosity |-> 0]}

\* the content of a parameter file that loads
ParamsJson ==
    <<[name |-> "PC1", m |-> Num(3, 1, 0), sigma |-> Num(38, 1, -1), epsilon_k |-> Num(240, 1, 0),
       mole_fraction |-> Num(6, 1, -1), molar_mass |-> Num(120, 1, 0)],
      [name |-> "PC2", m |-> Num(5, 1, 0), sigma |-> Num(41, 1, -1), epsilon_k |-> Num(260, 1, 0),
       mole_fraction |-> Num(4, 1, -1), molar_mass |-> Num(170, 1, 0)]>>

PetroInit ==
    /\ z = ZInit
    /\ K = KInit
    /\ NoCall
    /\ NoThreads
    /\ NoDriver
    /\ NoSums
    /\ files \in [ParamsPaths -> FileStates]
    /\ adj_model = <<>>
    /\ characterizer = <<>>
    /\ ret = <<>>

\* a call that returned value, and a call that raised exc
Return(op, input, value) == [op |-> op, input |-> input, kind |-> "return", value |-> value]

Raise(op, input, exc) == [op |-> op, input |-> input, kind |-> "raise", value |-> exc]

\* ParameterAdjustmentModel.__init__: if model_path: ... else: ...
ParameterAdjustmentModel(model_path) ==
    [model |-> IF model_path \notin {"None", ""} THEN "DummyLoadedModel" ELSE "None"]

\* the list of lines 85-91 with its last entry left out
dummy_predictions_Short ==
    <<[name |-> "C7-C9", m |-> Num(285, 1, -2), sigma |-> Num(375, 1, -2),
       epsilon_k |-> Num(235, 1, 0), mole_fraction |-> Num(30, 1, -2), molar_mass |-> Num(1155, 1, -1)],
      [name |-> "C10-C12", m |-> Num(455, 1, -2), sigma |-> Num(405, 1, -2),
       epsilon_k |-> Num(255, 1, 0), mole_fraction |-> Num(25, 1, -2), molar_mass |-> Num(1555, 1, -1)],
      [name |-> "C13-C16", m |-> Num(685, 1, -2), sigma |-> Num(435, 1, -2),
       epsilon_k |-> Num(275, 1, 0), mole_fraction |-> Num(20, 1, -2), molar_mass |-> Num(2005, 1, -1)],
      [name |-> "C17-C22", m |-> Num(955, 1, -2), sigma |-> Num(465, 1, -2),
       epsilon_k |-> Num(295, 1, 0), mole_fraction |-> Num(15, 1, -2), molar_mass |-> Num(2805, 1, -1)]>>

dummy_predictions ==
    <<[name |-> "C7-C9", m |-> Num(285, 1, -2), sigma |-> Num(375, 1, -2),
       epsilon_k |-> Num(235, 1, 0), mole_fraction |-> Num(30, 1, -2), molar_mass |-> Num(1155, 1, -1)],
      [name |-> "C10-C12", m |-> Num(455, 1, -2), sigma |-> Num(405, 1, -2),
       epsilon_k |-> Num(255, 1, 0), mole_fraction |-> Num(25, 1, -2), molar_mass |-> Num(1555, 1, -1)],
      [name |-> "C13-C16", m |-> Num(685, 1, -2), sigma |-> Num(435, 1, -2),
       epsilon_k |-> Num(275, 1, 0), mole_fraction |-> Num(20, 1, -2), molar_mass |-> Num(2005, 1, -1)],
      [name |-> "C17-C22", m |-> Num(955, 1, -2), sigma |-> Num(465, 1, -2),
       epsilon_k |-> Num(295, 1, 0), mole_fraction |-> Num(15, 1, -2), molar_mass |-> Num(2805, 1, -1)],
      [name |-> "C23+", m |-> Num(1305, 1, -2), sigma |-> Num(495, 1, -2),
       epsilon_k |-> Num(315, 1, 0), mole_fraction |-> Num(10, 1, -2), molar_mass |-> Num(3805, 1, -1)]>>

\* ParameterAdjustmentModel.predict: neither self.model nor input_features is read
predict(self, input_features) == dummy_predictions

\* _load_initial_parameters with the clause except json.JSONDecodeError left out
load_initial_parameters_NoDecodeError(path) ==
    CASE files[path] = "components" -> Ok(ParamsJson)
      [] files[path] = "missing"    -> Ok(<<>>)
      [] files[path] = "invalid"    -> Err("JSONDecodeError", "")
      [] files[path] = "unreadable" -> Err("PermissionError", "")

\* _load_initial_parameters: open, json.load; FileNotFoundError and
\* json.JSONDecodeError are caught and give [], any other error leaves the method
load_initial_parameters(path) ==
    CASE files[path] = "components" -> Ok(ParamsJson)
      [] files[path] = "missing"    -> Ok(<<>>)
      [] files[path] = "invalid"    -> Ok(<<>>)
      [] files[path] = "unreadable" -> Err("PermissionError", "")

\* the objects a method is called on: adj_model, and the ml_model of characterizer
ModelAt(t) == IF t = "adj_model" THEN adj_model ELSE
              IF characterizer = <<>> THEN <<>> ELSE <<characterizer[1].ml_model>>

\* self.model = v on the object t
SetModel(t, v) ==
    IF t = "adj_model"
    THEN adj_model' = <<[adj_model[1] EXCEPT !.model = v]>> /\ characterizer' = characterizer
    ELSE characterizer' = <<[characterizer[1] EXCEPT !.ml_model.model = v]>> /\ adj_model' = adj_model

\* adj_model = ParameterAdjustmentModel(model_path)
NewModel ==
    /\ \E model_path \in ModelPaths :
          /\ adj_model' = <<ParameterAdjustmentModel(model_path)>>
          /\ ret' = <<Return("ParameterAdjustmentModel", model_path, "None")>>
    /\ UNCHANGED <<z, K, args, locals, pc, outcome, ghost, inv, driver, sums, files, characterizer>>

\* train(X_train, y_train)
Train ==
    /\ \E t \in {"adj_model", "ml_model"} :
          /\ ModelAt(t) # <<>>
          /\ SetModel(t, "DummyTrainedModel")
          /\ ret' = <<Return("train", t, "None")>>
    /\ UNCHANGED <<z, K, args, locals, pc, outcome, ghost, inv, driver, sums, files>>

\* save_model(): prints, and writes nothing
SaveModel ==
    /\ \E t \in {"adj_model", "ml_model"} :
          /\ ModelAt(t) # <<>>
          /\ ret' = <<Return("save_model", t, "None")>>
    /\ UNCHANGED <<z, K, args, locals, pc, outcome, ghost, inv, driver, sums, files,
                   adj_model, characterizer>>

\* adj_model.predict(input_features)
Predict ==
    /\ adj_model # <<>>
    /\ \E input_features \in Inputs :
          ret' = <<Return("predict", input_features, predict(adj_model[1], input_features))>>
    /\ UNCHANGED <<z, K, args, locals, pc, outcome, ghost, inv, driver, sums, files,
                   adj_model, characterizer>>

\* characterizer = PetroleumCharacterization(ml_model_path, initial_params_path)
Construct ==
    /\ \E ml_model_path \in ModelPaths, initial_params_path \in {"None", "params.json"} :
          LET path   == IF initial_params_path = "None" THEN DefaultParamsPath
                        ELSE initial_params_path
              loaded == load_initial_parameters(path)
              input  == [ml_model_path |-> ml_model_path, initial_params_path |-> initial_params_path]
          IN  IF loaded.ok
              THEN /\ characterizer' =
                          <<[initial_params_path       |-> path,
                             initial_pseudo_components |-> loaded.val[1],
                             ml_model                  |-> ParameterAdjustmentModel(ml_model_path),
                             pcsaft_model              |-> "None"]>>
                   /\ ret' = <<Return("PetroleumCharacterization", input, "None")>>
              ELSE /\ characterizer' = characterizer
                   /\ ret' = <<Raise("PetroleumCharacterization", input, loaded.exc)>>
    /\ UNCHANGED <<z, K, args, locals, pc, outcome, ghost, inv, driver, sums, files, adj_model>>

\* lines 168-172
pcsaft_outputs_c7plus ==
    [density_c7plus_kg_m3 |-> "Placeholder (e.g., 780 kg/m^3 for C7+ fraction)",
     viscosity_c7plus_cP  |-> "Placeholder (e.g., 2.5 cP for C7+ fraction)",
     notes_pcsaft         |-> "These are placeholder values for the C7+ fraction properties."]

\* lines 141 and 175-181
results(self, bulk_properties_whole_fluid) ==
    [bulk_inputs_whole_fluid     |-> bulk_properties_whole_fluid,
     predicted_c7plus_parameters |-> predict(self.ml_model, bulk_properties_whole_fluid),
     pcsaft_outputs_c7plus       |-> pcsaft_outputs_c7plus,
     notes                       |-> "This result focuses on the C7+ fraction characterization. True ML predictions and PC-SAFT calculations are not yet implemented."]

\* the same call, keeping the prediction in self.initial_pseudo_components
Characterize_KeepsPrediction ==
    /\ characterizer # <<>>
    /\ \E bulk \in Inputs :
          /\ ret' = <<Return("characterize_c7plus_fraction", bulk, results(characterizer[1], bulk))>>
          /\ characterizer' = <<[characterizer[1] EXCEPT !.initial_pseudo_components =
                                    predict(characterizer[1].ml_model, bulk)]>>
    /\ UNCHANGED <<z, K, args, locals, pc, outcome, ghost, inv, driver, sums, files, adj_model>>

\* characterizer.characterize_c7plus_fraction(bulk_properties_whole_fluid)
Characterize ==
    /\ characterizer # <<>>
    /\ \E bulk \in Inputs :
          ret' = <<Return("characterize_c7plus_fraction", bulk, results(characterizer[1], bulk))>>
    /\ UNCHANGED <<z, K, args, locals, pc, outcome, ghost, inv, driver, sums, files,
                   adj_model, characterizer>>

PetroNext ==
    \/ NewModel
    \/ Train
    \/ SaveModel
    \/ Predict
    \/ Construct
    \/ Characterize

PetroSpec == PetroInit /\ [][PetroNext]_vars

\* the last call was op
Called(op) == ret # <<>> /\ ret[1].op = op

RECURSIVE SumOf(_, _)
SumOf(l, k) == IF k = 0 THEN Zero ELSE RAdd(SumOf(l, k - 1), l[k].mole_fraction)

\* C15: predict returns, for every input and in every state of the model
\* (constructed with or without a model path, before or after train), a list
\* of exactly five dicts, each with the keys name, m, sigma, epsilon_k,
\* mole_fraction and molar_mass, whose mole fractions sum to 1.
C15_PredictStructure ==
    /\ Called("predict") =>
          /\ ret[1].kind = "return"
          /\ Len(ret[1].value) = 5
          /\ \A k \in 1 .. Len(ret[1].value) :
                DOMAIN ret[1].value[k] =
                    {"name", "m", "sigma", "epsilon_k", "mole_fraction", "molar_mass"}
          /\ SumOf(ret[1].value, Len(ret[1].value)) = One
    /\ adj_model # <<>> =>
          /\ adj_model[1].model \in {"None", "DummyLoadedModel", "DummyTrainedModel"}
          /\ ENABLED Predict

\* predict has returned on a model that was built from a path and then trained
C15_Witness ==
    /\ Called("predict")
    /\ adj_model = <<[model |-> "DummyTrainedModel"]>>
    /\ ret[1].input \in Inputs

\* the parameter file the last constructor call read
PathRead ==
    IF ret[1].input.initial_params_path = "None" THEN DefaultParamsPath
    ELSE ret[1].input.initial_params_path

\* C16: when loading the initial parameters fails (there is no file at
\* initial_params_path, or it is not valid JSON), the construction of
\* PetroleumCharacterization still completes: initial_pseudo_components is
\* the empty list, ml_model is set and pcsaft_model is None.
C16_LoadFailureTolerated ==
    (Called("PetroleumCharacterization") /\ files[PathRead] \in {"missing", "invalid"}) =>
        /\ ret[1].kind = "return"
        /\ characterizer # <<>>
        /\ characterizer[1].initial_params_path = PathRead
        /\ characterizer[1].initial_pseudo_components = <<>>
        /\ characterizer[1].ml_model = ParameterAdjustmentModel(ret[1].input.ml_model_path)
        /\ characterizer[1].pcsaft_model = "None"

\* a characterizer has been constructed on a parameter file that is not JSON
C16_Witness ==
    /\ Called("PetroleumCharacterization")
    /\ files[PathRead] = "invalid"
    /\ characterizer # <<>> /\ characterizer[1].initial_pseudo_components = <<>>

\* C17: characterize_c7plus_fraction returns, for any input and whether or not
\* initial parameters were loaded, a dict with exactly the keys
\* bulk_inputs_whole_fluid, predicted_c7plus_parameters, pcsaft_outputs_c7plus
\* and notes; bulk_inputs_whole_fluid is the input, predicted_c7plus_parameters
\* is what the ML model's predict returns for it; the call changes no
\* attribute of the characterizer.
C17_CharacterizeResult ==
    /\ [](Called("characterize_c7plus_fraction") =>
            /\ ret[1].kind = "return"
            /\ DOMAIN ret[1].value = {"bulk_inputs_whole_fluid", "predicted_c7plus_parameters",
                                      "pcsaft_outputs_c7plus", "notes"}
            /\ ret[1].value.bulk_inputs_whole_fluid = ret[1].input
            /\ ret[1].value.predicted_c7plus_parameters =
                  predict(characterizer[1].ml_model, ret[1].input))
    /\ [](characterizer # <<>> => ENABLED Characterize)
    /\ [][(ret' # <<>> /\ ret'[1].op = "characterize_c7plus_fraction") =>
             (characterizer' = characterizer /\ adj_model' = adj_model)]_vars

\* the call has returned on a characterizer whose parameter file was missing
C17_Witness ==
    /\ Called("characterize_c7plus_fraction")
    /\ characterizer[1].initial_pseudo_components = <<>>
    /\ ret[1].value.bulk_inputs_whole_fluid = [API_gravity |-> 30, overall_molecular_weight |-> 200]
(* ------------------------------------------------------------------ *)
(* newton_raphson: the order of the tests and of the evaluations       *)
(* ------------------------------------------------------------------ *)

\* the current x is a root of func and its derivative is below the floor
RootBelowFloor == pc = "floor" /\ IsZero(f_x[1]) /\ Small(df_x[1])

\* C21: the derivative check comes before convergence: when func(x) = 0 at
\* the current iterate x but |dfunc(x)| < 1e-10 the call fails with
\* DerivativeTooSmall and does not return x; a value is returned only from an
\* iteration whose derivative, taken at that iteration's x, passed the floor.
C21_DerivativeCheckFirst ==
    /\ [][RootBelowFloor =>
            (pc' = "done" /\ outcome' = <<DerivativeTooSmall>> /\ x' = x)]_vars
    /\ []((Done /\ outcome[1].kind = "return") =>
            /\ df_x # <<>> /\ ~Small(df_x[1])
            /\ df_x = Apply(dfunc, z, K, x[1]).val
            /\ ndfunc = Completed + 1)
    /\ [](pc \in {"update", "tol"} => ~Small(df_x[1]))

\* the call from an exact root with a derivative of 5e-11 has failed, in its
\* first iteration
C21_Witness ==
    /\ Done /\ outcome = <<DerivativeTooSmall>>
    /\ nfunc = 1 /\ x = <<x0>>
    /\ IsZero(f_x[1]) /\ Small(df_x[1]) /\ ~IsZero(df_x[1])

\* C22: in every iteration func and dfunc are each evaluated exactly once,
\* both at the same current x and func before dfunc; a call that ends in its
\* k-th iteration, by convergence or by DerivativeTooSmall, has evaluated each
\* exactly k times, and a call that ends with ConvergenceFailure has evaluated
\* each exactly max_iter times (no times when max_iter is negative).
C22_OneEvaluationEach ==
    /\ [](pc \in {"for", "func"} => (nfunc = Completed /\ ndfunc = Completed))
    /\ [](pc = "dfunc" =>
            /\ nfunc = Completed + 1 /\ ndfunc = Completed
            /\ f_x = Apply(func, z, K, x[1]).val)
    /\ [](pc \in {"floor", "update", "tol"} =>
            /\ nfunc = Completed + 1 /\ ndfunc = Completed + 1
            /\ f_x = Apply(func, z, K, x[1]).val
            /\ df_x = Apply(dfunc, z, K, x[1]).val)
    /\ []((Done /\ (outcome[1].kind = "return" \/ outcome[1] = DerivativeTooSmall)) =>
            /\ nfunc = i[1] + 1 /\ ndfunc = i[1] + 1
            /\ i[1] = Completed)
    /\ []((Done /\ outcome[1] = ConvergenceFailure(max_iter)) =>
            /\ nfunc = (IF max_iter > 0 THEN max_iter ELSE 0)
            /\ ndfunc = nfunc)
    /\ [][(Running /\ nfunc' # nfunc) =>
            (pc = "func" /\ nfunc' = nfunc + 1 /\ ndfunc' = ndfunc /\ x' = x)]_vars
    /\ [][(Running /\ ndfunc' # ndfunc) =>
            (pc = "dfunc" /\ ndfunc' = ndfunc + 1 /\ nfunc' = nfunc /\ x' = x)]_vars

\* a call has returned from its second iteration
C22_Witness ==
    /\ Done /\ outcome[1].kind = "return"
    /\ i = <<1>> /\ nfunc = 2 /\ ndfunc = 2

====
